---- MODULE Spec2Model ----
(***************************************************************************)
(* DCDIU server, revision V4.0: the per-connection session engine.         *)
(*                                                                         *)
(*   ClientHandler::authenticate / ClientHandler::handle                   *)
(*   DirectoryTraverser::traverse                                          *)
(*   ContentScanner::scan                                                  *)
(*   FileInspector::inspect                                                *)
(*                                                                         *)
(* Every session is one forked process.  Sessions share two files,         *)
(* data/users.txt (the credential store) and data/files.txt (the path      *)
(* list), and a read-only directory tree.  Byte strings of the program are *)
(* TLA+ strings; std::string positions are 0-based, SubSeq is 1-based.     *)
(***************************************************************************)
EXTENDS Integers, Sequences, FiniteSets, TLC

(***************************************************************************)
(* Program constants                                                       *)
(***************************************************************************)
BUFFER_SIZE == 4096

END_MARK == "<<END>>\n"

\* std::string::npos
NPOS == 0 - 1

(***************************************************************************)
(* Bounds of the model                                                     *)
(***************************************************************************)
\* number of injected I/O failures (send, recv, open, read, write) per run
MaxFaults == 1

\* depth of the recursion of traverse that the model follows
MaxDepth == 4

(***************************************************************************)
(* std::string operations                                                  *)
(***************************************************************************)
Min(a, b) == IF a < b THEN a ELSE b

\* s[i], 0-based
CharAt(s, i) == SubSeq(s, i + 1, i + 1)

\* s.substr(pos, n); the caller guards pos <= s.size()
Substr(s, pos, n) == SubSeq(s, pos + 1, Min(pos + n, Len(s)))

\* s.substr(pos)
SubstrFrom(s, pos) == SubSeq(s, pos + 1, Len(s))

\* s.compare(0, n, lit) == 0
HasPrefix(s, n, lit) == Substr(s, 0, n) = lit

\* s.find(ch, from): the first position >= from holding ch, else npos
RECURSIVE Find(_, _, _)
Find(s, ch, from) ==
    IF from >= Len(s) THEN NPOS
    ELSE IF CharAt(s, from) = ch THEN from
    ELSE Find(s, ch, from + 1)

\* content.find(pattern) != npos
RECURSIVE FindStr(_, _, _)
FindStr(s, pat, from) ==
    IF from + Len(pat) > Len(s) THEN NPOS
    ELSE IF Substr(s, from, Len(pat)) = pat THEN from
    ELSE FindStr(s, pat, from + 1)

\* s.find_last_not_of("\n\r")
RECURSIVE FindLastNotOfCRLF(_, _)
FindLastNotOfCRLF(s, i) ==
    IF i < 0 THEN NPOS
    ELSE IF CharAt(s, i) \notin {"\n", "\r"} THEN i
    ELSE FindLastNotOfCRLF(s, i - 1)

\* pos = s.find_last_not_of("\n\r"); if (pos != npos) s.erase(pos + 1);
StripCRLF(s) ==
    LET pos == FindLastNotOfCRLF(s, Len(s) - 1)
    IN  IF pos # NPOS THEN Substr(s, 0, pos + 1) ELSE s

Digit == <<"0", "1", "2", "3", "4", "5", "6", "7", "8", "9">>

\* std::to_string of a non-negative int
RECURSIVE to_string(_)
to_string(n) ==
    IF n < 10 THEN Digit[n + 1]
    ELSE to_string(n \div 10) \o Digit[(n % 10) + 1]

\* while (getline(stream, line)): the lines of a text, the last one also when
\* it has no terminating newline
RECURSIVE GetLines(_)
GetLines(text) ==
    IF text = "" THEN <<>>
    ELSE LET nl == Find(text, "\n", 0)
         IN  IF nl = NPOS THEN <<text>>
             ELSE <<Substr(text, 0, nl)>> \o GetLines(SubstrFrom(text, nl + 1))

(***************************************************************************)
(* SHA-256 rendered as lowercase hex.  The digest is idealised as a        *)
(* collision-free function with hexadecimal output: every byte of the      *)
(* input is rendered as its two hex digits.                                *)
(***************************************************************************)
HexOf(c) ==
    CASE c = "p" -> "70" [] c = "w" -> "77" [] c = "x" -> "78"
      [] c = "A" -> "41" [] c = "B" -> "42" [] c = ":" -> "3a"
      [] c = "a" -> "61" [] c = "b" -> "62" [] c = "\n" -> "0a"
      [] OTHER -> "3f"

RECURSIVE hashPassword(_)
hashPassword(password) ==
    IF password = "" THEN ""
    ELSE HexOf(CharAt(password, 0)) \o hashPassword(SubstrFrom(password, 1))

\* the values generateSalt() may return: 16 characters of [0-9A-Za-z]
Salts == {"AAAAAAAAAAAAAAAA", "BBBBBBBBBBBBBBBB"}

(***************************************************************************)
(* One line of data/users.txt, as authenticate() splits it                 *)
(***************************************************************************)
ParseRecord(line) ==
    LET c1 == Find(line, ":", 0)
        storedUser == IF c1 = NPOS THEN line ELSE Substr(line, 0, c1)
        rest1 == IF c1 = NPOS THEN "" ELSE SubstrFrom(line, c1 + 1)
        c2 == Find(rest1, ":", 0)
        storedSalt == IF c2 = NPOS THEN rest1 ELSE Substr(rest1, 0, c2)
        storedHash == IF c2 = NPOS THEN "" ELSE SubstrFrom(rest1, c2 + 1)
    IN  [user |-> storedUser, salt |-> storedSalt, hash |-> storedHash]

(***************************************************************************)
(* The directory tree the server runs on.  It does not change while the    *)
(* server runs.  readdir order is the order of the entry lists.            *)
(*                                                                         *)
(*   r/            f  d/  g  x  s                                          *)
(*   r/d/          h  e/                                                   *)
(*   r/d/e/        k            (opendir fails: no permission)             *)
(*   q/            m  n                                                    *)
(*   v/            e  o  c  c1  m   (files of 0, 1, 4096, 4097, 8194 bytes)*)
(*                 z            (a file that holds the bytes "<<END>>\n")   *)
(*   c/            f  l -> c    (a symbolic link to its own directory)     *)
(*                                                                         *)
(*   r/g  cannot be opened for reading, r/x cannot be stat-ed (a dangling  *)
(*   link), r/s is neither a directory nor a regular file (a fifo).        *)
(***************************************************************************)
DirEntries ==
    "r" :> <<".", "..", "f", "d", "g", "x", "s">> @@
    "r/d" :> <<".", "..", "h", "e">> @@
    "r/d/e" :> <<".", "..", "k">> @@
    "q" :> <<".", "..", "m", "n">> @@
    "w" :> <<".", "..", "a", "b", "c">> @@
    "c" :> <<".", "..", "f", "l">> @@
    "v" :> <<".", "..", "e", "o", "c", "c1", "m", "z">>

Double(s) == s \o s

ChunkA == Double(Double(Double(Double(Double(Double(Double(Double(Double("abcdefgh")))))))))

ChunkB == Double(Double(Double(Double(Double(Double(Double(Double(Double("ijklmnop")))))))))

FileContent ==
    "r/f" :> "abc" @@
    "r/g" :> "bc" @@
    "r/d/h" :> "xbcx" @@
    "r/d/e/k" :> "bc" @@
    "q/m" :> "zbc" @@
    "q/n" :> "b c" @@
    "w/a" :> "bc" @@
    "w/b" :> "bc" @@
    "w/c" :> "xbc" @@
    "c/f" :> "bc" @@
    "v/e" :> "" @@
    "v/o" :> "a" @@
    "v/z" :> "ab<<END>>\ncd" @@
    "v/c" :> ChunkA @@
    "v/c1" :> (ChunkA \o "z") @@
    "v/m" :> (ChunkA \o ChunkB \o "yz")

\* symbolic links: the path of the link and the path it points to
Links == "c/l" :> "c"

ResolveNoFollow(path) == path

\* the file that opendir, stat and open reach under path: they follow the
\* symbolic links on it
RECURSIVE Resolve(_)
Resolve(path) ==
    LET hits == {l \in DOMAIN Links :
                    \/ path = l
                    \/ /\ Len(path) > Len(l)
                       /\ SubSeq(path, 1, Len(l) + 1) = l \o "/"}
    IN  IF hits = {} THEN path
        ELSE LET l == CHOOSE l \in hits : TRUE
             IN  Resolve(Links[l] \o SubSeq(path, Len(l) + 1, Len(path)))

Directories == DOMAIN DirEntries

RegularFiles == DOMAIN FileContent

\* neither directory nor regular file
SpecialFiles == {"r/s"}

\* opendir() fails with EACCES
NoOpenDir == {"r/d/e"}

\* open(O_RDONLY) fails with EACCES
NoOpenFile == {"r/g", "w/b"}

\* stat() returns -1
StatFails == {"r/x"}

\* opendir(path) != nullptr
CanOpenDir(path) == Resolve(path) \in Directories \ NoOpenDir

\* strerror(errno) after a failed opendir
OpendirError(path) ==
    IF Resolve(path) \in NoOpenDir THEN "Permission denied"
    ELSE IF Resolve(path) \in RegularFiles \cup SpecialFiles THEN "Not a directory"
    ELSE "No such file or directory"

\* open(path, O_RDONLY) >= 0
CanOpenFile(path) ==
    Resolve(path) \in (RegularFiles \ NoOpenFile) \cup (Directories \ NoOpenDir)

\* the bytes read() delivers from path (none from a directory)
Content(path) ==
    IF Resolve(path) \in RegularFiles THEN FileContent[Resolve(path)] ELSE ""

\* basePath + "/" + entry->d_name
FullPath(basePath, name) == basePath \o "/" \o name

(***************************************************************************)
(* The peers.  A client script is what one client sends: its reply to the  *)
(* username prompt, its reply to the password prompt, and its command      *)
(* chunks; when the script is used up the client closes the connection.    *)
(* A workload is the scripts of the clients that connect, in the order in  *)
(* which accept() returns them.                                            *)
(***************************************************************************)
Client(u, p, cmds) == [user |-> u, pass |-> p, cmds |-> cmds]

\* the commands of the model
Menu ==
    {"TRAVERSE r", "TRAVERSE r/d", "TRAVERSE q", "TRAVERSE nx", "TRAVERSE r/f",
     "TRAVERSE ", "TRAVERSE",
     "SEARCH r bc", "SEARCH q b c", "SEARCH r/d zz", "SEARCH q ", "SEARCH r",
     "SEARCH", "SEARCH w bc", "SEARCH  bc", "SEARCH q b  c ",
     "INSPECT r/f", "INSPECT v/e", "INSPECT v/o", "INSPECT v/c", "INSPECT v/c1",
     "INSPECT v/m", "INSPECT v/z", "INSPECT nx", "INSPECT r/g", "INSPECT ", "INSPECT r",
     "EXIT", "FOO bar", "traverse r", " EXIT",
     "EXITnow", "TRAVERSExq", "INSPECTxr/f", "SEARCHING q bc"}

\* a command that leaves a path list behind, or nothing, and a second command
Firsts == {"TRAVERSE r", "TRAVERSE q", "SEARCH r bc", "SEARCH r", "FOO bar", "INSPECT nx"}

Seconds ==
    {"TRAVERSE r", "TRAVERSE q", "SEARCH q b c", "SEARCH r", "INSPECT r/f",
     "INSPECT nx", "FOO bar", "EXIT"}

Scripts ==
    {<<c>> : c \in Menu} \cup {<<c1, c2>> : c1 \in Firsts, c2 \in Seconds}

\* one client
SoloClients == {<<Client("bob\r\n", "pw\n", cmds)>> : cmds \in Scripts}

\* two or three clients of one username: registration, login, the race
AuthClients ==
    {<<Client(u, "pw", <<>>), Client(u, p2, <<"EXIT">>)>> :
        u \in {"amy", "a:b"}, p2 \in {"pw", "px"}}
    \cup
    {<<Client("amy", "pw", <<>>), Client("amy", "px", <<>>), Client("amy", p, <<>>)>> :
        p \in {"pw", "px"}}

\* two clients that traverse or search at the same time
SharedListClients ==
    {<<Client("bob", "pw", <<c1>>), Client("amy", "pw", <<c2>>)>> :
        c1 \in {"SEARCH q bc", "TRAVERSE q"}, c2 \in {"TRAVERSE r/d", "SEARCH r/d bc"}}

\* the clients of the runs in which I/O calls fail
FaultClients ==
    {<<Client("bob", "pw", <<c>>)>> :
        c \in {"TRAVERSE q", "SEARCH q b c", "SEARCH w bc", "INSPECT v/c1",
               "INSPECT nx", "FOO bar"}}
    \cup {<<Client("amy", "pw", <<>>), Client("amy", "pw", <<"EXIT">>)>>}

\* one client whose username names a file below a directory logs/x
SlashClients ==
    {<<Client("x/y", "pw", cmds)>> :
        cmds \in {<<"FOO bar">>, <<"EXIT">>, <<"SEARCH">>, <<"TRAVERSE q">>}}

\* two clients, one of them traversing the tree with the cycle
CycleClients ==
    {<<Client("bob", "pw", <<"TRAVERSE q">>), Client("amy", "pw", <<c>>)>> :
        c \in {"TRAVERSE c", "TRAVERSE c/l"}}

\* the clients of the runs in which the server is interrupted
ShutdownClients ==
    {<<Client("bob", "pw", <<"FOO bar">>), Client("amy", "pw", cmds)>> :
        cmds \in {<<>>, <<"EXIT">>}}

\* a run: its clients, the number of I/O calls that fail in it and the
\* number of SIGINTs delivered to the dispatcher in it
Workloads ==
    {[clients |-> cs, failures |-> 0, interrupts |-> 0] :
        cs \in SoloClients \cup AuthClients \cup SharedListClients
               \cup SlashClients \cup CycleClients}
    \cup {[clients |-> cs, failures |-> MaxFaults, interrupts |-> 0] :
            cs \in FaultClients}
    \cup {[clients |-> cs, failures |-> 0, interrupts |-> 1] :
            cs \in ShutdownClients}

(***************************************************************************)
(* State                                                                   *)
(***************************************************************************)
VARIABLES
    workload,   \* the clients' scripts and the failures to come (never changes)
    server,     \* the dispatcher process: Server::start and handle_sigint
    users,      \* the bytes of data/users.txt
    files,      \* the bytes of data/files.txt
    session,    \* per session process: its ClientHandler and call stack
    regs,       \* history: the registrations, in the order of their appends
    faults      \* history: the number of I/O calls that have failed

vars == <<workload, server, users, files, session, regs, faults>>

Sessions == 1 .. Len(workload.clients)

\* the session numbers of all workloads
SessionIds == UNION {DOMAIN w.clients : w \in Workloads}

NewSession ==
    [state |-> "UNBORN",
     server_fd |-> FALSE,   \* this process holds the listening socket open
     username |-> "", password |-> "", replies |-> 0, seen |-> <<>>,
     authReply |-> "",
     lookedAt |-> 0,        \* history: the appends made before the lookup
     logOpen |-> FALSE, log |-> <<>>,
     next |-> 0, command |-> "", path |-> "", pattern |-> "",
     sent |-> "", fileCount |-> 0, stack |-> <<>>, matches |-> <<>>,
     fdOpen |-> FALSE, offset |-> 0,
     fatals |-> 0,
     \* history: the directories opendir has opened in this request, each
     \* with whether its ofstream on the path list opened
     dirs |-> <<>>,
     \* history: the list the last scan read, the path on which its read
     \* was made to fail, and the paths it called open on
     scanned |-> [list |-> <<>>, failAt |-> 0, opened |-> <<>>],
     fault |-> FALSE, sendFault |-> FALSE, history |-> <<>>]

\* the dispatcher as it enters its accept loop
NewServer ==
    [pc |-> "while",        \* the statement of Server::start it is at
     g_running |-> TRUE,
     listening |-> TRUE,    \* g_server_fd is an open socket
     client_fd |-> 0,       \* the connection accept returned, 0 for none
     accepted |-> 0,        \* the number of connections accept has returned
     sigints |-> 0,         \* history: the SIGINTs delivered
     dropped |-> {},        \* history: connections left open at the break
     closed |-> {},         \* history: connections closed when fork failed
     late |-> 0]            \* history: sessions forked after the flag was cleared

Init ==
    /\ workload \in Workloads
    /\ server = NewServer
    /\ users = ""
    /\ files = ""
    /\ session = [s \in 1 .. Len(workload.clients) |-> NewSession]
    /\ regs = <<>>
    /\ faults = 0

(***************************************************************************)
(* I/O calls that may fail.  TRUE: the call fails.                         *)
(***************************************************************************)
F(fail) == IF fail THEN 1 ELSE 0

\* safe_send(fd, data) and send(fd, data): all of data or nothing of it
Emit(r, data, fail) ==
    IF fail THEN [r EXCEPT !.fault = TRUE, !.sendFault = TRUE]
    ELSE [r EXCEPT !.sent = @ \o data]

\* ClientHandler::log
Log(r, message) ==
    IF r.logOpen THEN [r EXCEPT !.log = Append(@, message)] ELSE r

LogExits(r, level) ==
    IF level = "FATAL" THEN [r EXCEPT !.fatals = @ + 1, !.state = "ABORTED"] ELSE r

\* Logger::log through LOG(level, operation, message): the entry is written
\* and the call returns; fatals counts the entries of level FATAL (FATAL is
\* 0, so it passes level <= currentLevel under every threshold)
LoggerLog(r, level) ==
    IF level = "FATAL" THEN [r EXCEPT !.fatals = @ + 1] ELSE r

EndAnswering(r) ==
    [r EXCEPT !.state = "ENDED", !.logOpen = FALSE,
              !.sent = @ \o "Incorrect password\n"]

EndKeepsReading(r) == [r EXCEPT !.state = "AWAITING_COMMAND"]

\* handle(): logFile.close(); close(client_fd); and the child's exit
End(r) == [r EXCEPT !.state = "ENDED", !.logOpen = FALSE]

\* the bottom of the command loop: back to recv
Finish(r) ==
    [r EXCEPT !.state = "AWAITING_COMMAND",
              !.history = Append(@, [command |-> r.command,
                                     path |-> r.path,
                                     pattern |-> r.pattern,
                                     response |-> r.sent,
                                     fileCount |-> r.fileCount,
                                     matches |-> r.matches,
                                     clean |-> ~r.fault,
                                     sendFailed |-> r.sendFault,
                                     dirs |-> r.dirs])]

(***************************************************************************)
(* Server::start: accept and fork                                          *)
(***************************************************************************)
\* the sessions the dispatcher has forked
Spawned == {s \in DOMAIN session : session[s].state # "UNBORN"}

\* a session process that has exited or aborted
Terminated(s) == session[s].state \in {"ENDED", "ABORTED"}

\* handle_sigint: g_running = 0; close(g_server_fd)
Sigint ==
    /\ server.sigints < workload.interrupts
    /\ server.pc # "done"
    /\ server' = [server EXCEPT !.g_running = FALSE, !.listening = FALSE,
                                !.sigints = @ + 1]
    /\ UNCHANGED <<workload, users, files, session, regs, faults>>

\* while (g_running)
ServerLoop ==
    /\ server.pc = "while"
    /\ server' = [server EXCEPT !.pc = IF server.g_running THEN "accept" ELSE "wait"]
    /\ UNCHANGED <<workload, users, files, session, regs, faults>>

\* accept returns the connection of the next client
Accept(s) ==
    /\ s \in Sessions
    /\ server.pc = "accept"
    /\ server.listening
    /\ s = server.accepted + 1
    /\ server' = [server EXCEPT !.pc = "check", !.client_fd = s, !.accepted = s]
    /\ UNCHANGED <<workload, users, files, session, regs, faults>>

\* accept returns -1: the socket is closed, or the call fails
AcceptFails ==
    /\ server.pc = "accept"
    /\ \E fail \in BOOLEAN :
         /\ fail \/ ~server.listening
         /\ faults + F(fail) <= workload.failures
         /\ faults' = faults + F(fail)
    /\ server' = [server EXCEPT !.pc = "check", !.client_fd = 0]
    /\ UNCHANGED <<workload, users, files, session, regs>>

\* if (!g_running) break;  if (client_fd < 0) continue;
ServerCheck ==
    /\ server.pc = "check"
    /\ server' =
         IF ~server.g_running
         THEN [server EXCEPT !.pc = "wait",
                             !.dropped = @ \cup (IF server.client_fd > 0
                                                 THEN {server.client_fd} ELSE {})]
         ELSE IF server.client_fd = 0
              THEN [server EXCEPT !.pc = "while"]
              ELSE [server EXCEPT !.pc = "fork"]
    /\ UNCHANGED <<workload, users, files, session, regs, faults>>

ChildKeepsListening(r) == [r EXCEPT !.state = "AUTH_USERNAME", !.server_fd = TRUE]

\* pid == 0: the child has the parent's descriptors; close(server_fd), then
\* handler.handle()
Child(r) == [r EXCEPT !.state = "AUTH_USERNAME", !.server_fd = FALSE]

ForkAndWait(s) ==
    /\ s \in Sessions
    /\ server.pc = "fork"
    /\ s = server.client_fd
    /\ server' = [server EXCEPT !.pc = "wait", !.client_fd = 0]
    /\ session' = [session EXCEPT ![s].state = "AUTH_USERNAME"]
    /\ UNCHANGED <<workload, users, files, regs, faults>>

\* fork(): the child runs handle(); the parent closes client_fd and reaps
Fork(s) ==
    /\ s \in Sessions
    /\ server.pc = "fork"
    /\ s = server.client_fd
    /\ \E fail \in BOOLEAN :
         /\ faults + F(fail) <= workload.failures
         /\ faults' = faults + F(fail)
         /\ IF fail
            THEN /\ server' = [server EXCEPT !.pc = "while", !.client_fd = 0,
                                             !.closed = @ \cup {s}]
                 /\ UNCHANGED session
            ELSE /\ server' = [server EXCEPT !.pc = "while", !.client_fd = 0,
                                             !.late = @ + (IF server.g_running THEN 0 ELSE 1)]
                 /\ session' = [session EXCEPT ![s] = Child(session[s])]
    /\ UNCHANGED <<workload, users, files, regs>>

ExitsAtOnce == TRUE

\* while (wait(nullptr) > 0); returns once no child is left
NoChildLeft == \A s \in Spawned : Terminated(s)

\* the final wait, "Server terminated cleanly." and the return
ServerWait ==
    /\ server.pc = "wait"
    /\ NoChildLeft
    /\ server' = [server EXCEPT !.pc = "done"]
    /\ UNCHANGED <<workload, users, files, session, regs, faults>>

(***************************************************************************)
(* ClientHandler::authenticate                                             *)
(***************************************************************************)
\* "Username: " and the reply
AuthUsername(s) ==
    /\ s \in Sessions
    /\ session[s].state = "AUTH_USERNAME"
    /\ \E failSend, failRecv \in BOOLEAN :
         /\ faults + F(failSend) + F(failRecv) <= workload.failures
         /\ ~(failSend /\ failRecv)
         /\ faults' = faults + F(failSend) + F(failRecv)
         /\ LET r0 == session[s]
                r1 == Emit(r0, "Username: ", failSend)
            IN  session' = [session EXCEPT ![s] =
                    IF failSend THEN End(r1)
                    ELSE IF failRecv THEN End([r1 EXCEPT !.fault = TRUE])
                    ELSE [r1 EXCEPT !.state = "AUTH_PASSWORD", !.replies = 1,
                                    !.username = StripCRLF(workload.clients[s].user)]]
    /\ UNCHANGED <<server, workload, users, files, regs>>

\* "Password: " and the reply
AuthPassword(s) ==
    /\ s \in Sessions
    /\ session[s].state = "AUTH_PASSWORD"
    /\ \E failSend, failRecv \in BOOLEAN :
         /\ faults + F(failSend) + F(failRecv) <= workload.failures
         /\ ~(failSend /\ failRecv)
         /\ faults' = faults + F(failSend) + F(failRecv)
         /\ LET r0 == session[s]
                r1 == Emit(r0, "Password: ", failSend)
            IN  session' = [session EXCEPT ![s] =
                    IF failSend THEN End(r1)
                    ELSE IF failRecv THEN End([r1 EXCEPT !.fault = TRUE])
                    ELSE [r1 EXCEPT !.state = "AUTH_LOOKUP", !.replies = 2,
                                    !.password = StripCRLF(workload.clients[s].pass)]]
    /\ UNCHANGED <<server, workload, users, files, regs>>

\* while (getline(usersFile, line)) ... if (storedUser == username): the
\* number of the first line whose first field is username, 0 when none is
RECURSIVE LookupFrom(_, _, _)
LookupFrom(lines, username, i) ==
    IF i > Len(lines) THEN 0
    ELSE IF ParseRecord(lines[i]).user = username THEN i
    ELSE LookupFrom(lines, username, i + 1)

RECURSIVE LookupLastFrom(_, _, _)
LookupLastFrom(lines, username, i) ==
    IF i < 1 THEN 0
    ELSE IF ParseRecord(lines[i]).user = username THEN i
    ELSE LookupLastFrom(lines, username, i - 1)

LookupLast(lines, username) == LookupLastFrom(lines, username, Len(lines))

Lookup(lines, username) == LookupFrom(lines, username, 1)

\* logFile.open(logPath, ios::app)
\* "logs/" + username + "_" + pid + ".log" can be created: logs/ holds no
\* subdirectory, so a username with '/' names a file in a missing directory
CanOpenLog(username) == Find(username, "/", 0) = NPOS

\* logFile.open(logPath, ios::app); a failure is only written to cerr
OpenLog(r, fail) == [r EXCEPT !.logOpen = CanOpenLog(r.username) /\ ~fail]

ReadStoreAnyway(store, failOpen) == GetLines(store)

\* ifstream usersFile("data/users.txt"): when it does not open, a line is
\* written to cerr and getline reads nothing
ReadStore(store, failOpen) == IF failOpen THEN <<>> ELSE GetLines(store)

\* ifstream usersFile("data/users.txt") and the lookup loop
AuthLookup(s) ==
    /\ s \in Sessions
    /\ session[s].state = "AUTH_LOOKUP"
    /\ \E failOpen, failLog, failSend \in BOOLEAN :
         /\ faults + F(failOpen) + F(failLog) + F(failSend) <= workload.failures
         /\ faults' = faults + F(failOpen) + F(failLog) + F(failSend)
         /\ LET r0 == [session[s] EXCEPT
                          !.seen = ReadStore(users, failOpen),
                          !.lookedAt = Len(regs),
                          !.fault = @ \/ failOpen]
                i == Lookup(r0.seen, r0.username)
                rec == ParseRecord(r0.seen[i])
                computed == hashPassword(r0.password \o rec.salt)
            IN  session' = [session EXCEPT ![s] =
                    IF i = 0 THEN
                        [r0 EXCEPT !.state = "AUTH_REGISTER"]
                    ELSE IF computed = rec.hash THEN
                        [Emit(Log(OpenLog(r0, failLog), "User authenticated"),
                              "Login successful\n", failSend)
                            EXCEPT !.state = "AWAITING_COMMAND",
                                   !.authReply = "Login successful\n"]
                    ELSE
                        End([Emit(r0, "Incorrect password\n", failSend)
                                EXCEPT !.authReply = "Incorrect password\n"])]
         \* the log is opened only when the password matches
         /\ failLog => session'[s].authReply = "Login successful\n"
         \* no send when no record matches
         /\ (Lookup(ReadStore(users, failOpen), session[s].username) = 0) => ~failSend
    /\ UNCHANGED <<server, workload, users, files, regs>>

\* the record that registration appends
RecordLine(username, salt, hashed) ==
    username \o ":" \o salt \o ":" \o hashed \o "\n"

OverwriteStore(store, line) == line

PrependRecord(store, line) == line \o store

\* ofstream out("data/users.txt", ios::app); out << ...; out.close()
AppendRecord(store, line) == store \o line

\* generateSalt, hashPassword, the append, the log, "Account created"
AuthRegister(s) ==
    /\ s \in Sessions
    /\ session[s].state = "AUTH_REGISTER"
    /\ \E salt \in Salts, failOpen, failLog, failSend \in BOOLEAN :
         /\ faults + F(failOpen) + F(failLog) + F(failSend) <= workload.failures
         /\ ~(failOpen /\ failSend) /\ ~(failOpen /\ failLog)
         /\ faults' = faults + F(failOpen) + F(failLog) + F(failSend)
         /\ LET r0 == session[s]
                hashed == hashPassword(r0.password \o salt)
            IN  IF failOpen THEN
                    /\ session' = [session EXCEPT ![s] = End([r0 EXCEPT !.fault = TRUE])]
                    /\ UNCHANGED <<users, regs>>
                ELSE
                    /\ users' = AppendRecord(users, RecordLine(r0.username, salt, hashed))
                    /\ regs' = Append(regs, [session |-> s, user |-> r0.username,
                                             pass |-> r0.password, salt |-> salt])
                    /\ session' = [session EXCEPT ![s] =
                          [Emit(Log(OpenLog(r0, failLog), "New user registered securely"),
                                "Account created\n", failSend)
                             EXCEPT !.state = "AWAITING_COMMAND",
                                    !.authReply = "Account created\n"]]
    /\ UNCHANGED <<server, workload, files>>

(***************************************************************************)
(* ClientHandler::handle: the command loop                                 *)
(***************************************************************************)
Frame(path) == [path |-> path, phase |-> "open", idx |-> 1, buf |-> ""]

\* string fileList = "data/files.txt"
fileList == "data/files.txt"

VerbWholeWord(command) ==
    LET word(n, lit) ==
            /\ HasPrefix(command, n, lit)
            /\ Len(command) = n \/ SubSeq(command, n + 1, n + 1) = " "
    IN  IF word(8, "TRAVERSE") THEN "TRAVERSE"
        ELSE IF word(6, "SEARCH") THEN "SEARCH"
        ELSE IF word(7, "INSPECT") THEN "INSPECT"
        ELSE IF word(4, "EXIT") THEN "EXIT"
        ELSE "UNKNOWN"

VerbIgnoringCase(command) ==
    IF HasPrefix(command, 8, "TRAVERSE") \/ HasPrefix(command, 8, "traverse")
    THEN "TRAVERSE"
    ELSE IF HasPrefix(command, 6, "SEARCH") THEN "SEARCH"
    ELSE IF HasPrefix(command, 7, "INSPECT") THEN "INSPECT"
    ELSE IF HasPrefix(command, 4, "EXIT") THEN "EXIT"
    ELSE "UNKNOWN"

\* the branch of the if / else-if chain that a command takes
Verb(command) ==
    IF HasPrefix(command, 8, "TRAVERSE") THEN "TRAVERSE"
    ELSE IF HasPrefix(command, 6, "SEARCH") THEN "SEARCH"
    ELSE IF HasPrefix(command, 7, "INSPECT") THEN "INSPECT"
    ELSE IF HasPrefix(command, 4, "EXIT") THEN "EXIT"
    ELSE "UNKNOWN"

SpacePosFromSix(command) == Find(command, " ", 6)

\* size_t spacePos = command.find(' ', 7)
SpacePos(command) == Find(command, " ", 7)

StartTraversalKeepCount(r, state, path) ==
    [r EXCEPT !.state = state, !.path = path, !.stack = <<Frame(path)>>,
              !.dirs = <<>>]

\* int fileCount = 0; DirectoryTraverser::traverse(path, client_fd, fileCount, fileList)
StartTraversal(r, state, path) ==
    [r EXCEPT !.state = state, !.path = path, !.fileCount = 0,
              !.stack = <<Frame(path)>>, !.dirs = <<>>]

SearchPatternFirstWord(command, spacePos) ==
    LET rest == SubstrFrom(command, spacePos + 1)
        sp == Find(rest, " ", 0)
    IN  IF sp = NPOS THEN rest ELSE Substr(rest, 0, sp)

\* string pattern = command.substr(spacePos + 1)
SearchPattern(command, spacePos) == SubstrFrom(command, spacePos + 1)

NotTruncated(text) == text

\* ofstream(fileList, ios::trunc).close()
Truncated(text) == ""

\* one pass of the loop from recv to the start of the command's work
Dispatch(s) ==
    /\ s \in Sessions
    /\ session[s].state = "AWAITING_COMMAND"
    /\ \E failRecv, failSend1, failSend2 \in BOOLEAN :
         LET r0 == session[s]
             script == workload.clients[s].cmds
             eof == r0.next >= Len(script)
             command == script[r0.next + 1]
             r1 == Log([r0 EXCEPT !.next = @ + 1, !.command = command,
                                  !.path = "", !.pattern = "", !.sent = "",
                                  !.matches = <<>>, !.fault = FALSE,
                                  !.sendFault = FALSE],
                       "Command: " \o command)
             verb == Verb(command)
             spacePos == SpacePos(command)
         IN  /\ faults + F(failRecv) + F(failSend1) + F(failSend2) <= workload.failures
             /\ faults' = faults + F(failRecv) + F(failSend1) + F(failSend2)
             /\ (failSend1 \/ failSend2) => ~failRecv /\ ~eof /\ verb = "UNKNOWN"
             /\ IF failRecv \/ eof THEN
                    \* received <= 0: break
                    /\ session' = [session EXCEPT ![s] =
                          End([r0 EXCEPT !.fault = @ \/ failRecv])]
                    /\ UNCHANGED files
                ELSE IF verb = "TRAVERSE" THEN
                    IF Len(command) < 9 THEN
                        \* command.substr(9) throws std::out_of_range
                        /\ session' = [session EXCEPT ![s] =
                               [r1 EXCEPT !.state = "ABORTED"]]
                        /\ UNCHANGED files
                    ELSE
                        /\ files' = Truncated(files)
                        /\ session' = [session EXCEPT ![s] =
                               StartTraversal(r1, "TRAVERSING", SubstrFrom(command, 9))]
                ELSE IF verb = "SEARCH" THEN
                    IF spacePos = NPOS THEN
                        \* continue
                        /\ session' = [session EXCEPT ![s] = Finish(r1)]
                        /\ UNCHANGED files
                    ELSE
                        /\ files' = Truncated(files)
                        /\ session' = [session EXCEPT ![s] =
                               [StartTraversal(r1, "SEARCHING",
                                               Substr(command, 7, spacePos - 7))
                                  EXCEPT !.pattern = SearchPattern(command, spacePos)]]
                ELSE IF verb = "INSPECT" THEN
                    /\ UNCHANGED files
                    /\ session' = [session EXCEPT ![s] =
                          IF Len(command) < 8
                          THEN [r1 EXCEPT !.state = "ABORTED"]
                          ELSE [r1 EXCEPT !.state = "INSPECTING",
                                          !.path = SubstrFrom(command, 8),
                                          !.fdOpen = FALSE, !.offset = 0]]
                ELSE IF verb = "EXIT" THEN
                    /\ UNCHANGED files
                    /\ session' = [session EXCEPT ![s] = End(Log(r1, "Session ended"))]
                ELSE
                    /\ UNCHANGED files
                    /\ session' = [session EXCEPT ![s] =
                          Finish(Emit(Emit(r1, "ERROR: Unknown command\n", failSend1),
                                      END_MARK, failSend2))]
    /\ UNCHANGED <<server, workload, users, regs>>

(***************************************************************************)
(* DirectoryTraverser::traverse.  The recursion is the stack of frames;    *)
(* a frame's buf is what its ofstream holds until close() appends it to    *)
(* the path list.                                                          *)
(***************************************************************************)
Top(r) == r.stack[Len(r.stack)]

Pop(r) == [r EXCEPT !.stack = SubSeq(@, 1, Len(@) - 1)]

SetTop(r, frame) == [r EXCEPT !.stack[Len(r.stack)] = frame]

PushResetCount(r, frame) == [r EXCEPT !.stack = Append(@, frame), !.fileCount = 0]

\* traverse(fullPath, client_fd, fileCount, outputFile): fileCount by reference
Push(r, frame) == [r EXCEPT !.stack = Append(@, frame)]

InTraversal(r) == r.state \in {"TRAVERSING", "SEARCHING"} /\ r.stack # <<>>

CaughtUnwinds(r, what, failSend) ==
    [Emit(LoggerLog(r, "FATAL"), "ERROR: " \o what \o "\n", failSend)
        EXCEPT !.stack = <<>>]

\* catch (const exception& e): the error line, and the return of this call
Caught(r, what, failSend) ==
    Pop(Emit(LoggerLog(r, "FATAL"), "ERROR: " \o what \o "\n", failSend))

\* opendir has returned a stream for basePath
Opened(r, basePath, out) ==
    [r EXCEPT !.dirs = Append(@, [path |-> basePath, out |-> out])]

AnnounceNothing(r, basePath) == r

\* string dirMsg = "Directory: " + basePath + "\n"; send
Announce(r, basePath) == Emit(r, "Directory: " \o basePath \o "\n", FALSE)

\* opendir, the ofstream, the "Directory:" line
TravOpen(s) ==
    /\ s \in Sessions
    /\ InTraversal(session[s])
    /\ Top(session[s]).phase = "open"
    /\ \E failOut, failSend, failSend2 \in BOOLEAN :
         LET r0 == session[s]
             basePath == Top(r0).path
         IN  /\ faults + F(failOut) + F(failSend) + F(failSend2) <= workload.failures
             /\ faults' = faults + F(failOut) + F(failSend) + F(failSend2)
             /\ session' = [session EXCEPT ![s] =
                  IF ~CanOpenDir(basePath) THEN
                      Caught(Emit(r0, "ERROR: Cannot open directory: " \o basePath \o "\n",
                                  failSend),
                             "opendir failed: " \o OpendirError(basePath), failSend2)
                  ELSE IF failOut THEN
                      Caught([Opened(r0, basePath, FALSE) EXCEPT !.fault = TRUE],
                             "Failed to open output file: " \o fileList, failSend2)
                  ELSE IF failSend THEN
                      Caught([Opened(r0, basePath, TRUE)
                                 EXCEPT !.fault = TRUE, !.sendFault = TRUE],
                             "send() failed while sending directory info", failSend2)
                  ELSE
                      SetTop(Announce(Opened(r0, basePath, TRUE), basePath),
                             [Top(r0) EXCEPT !.phase = "iter"])]
             /\ ~CanOpenDir(basePath) => ~failOut
             /\ (CanOpenDir(basePath) /\ failOut) => ~failSend
             /\ (CanOpenDir(basePath) /\ ~failOut /\ ~failSend) => ~failSend2
    /\ UNCHANGED <<server, workload, users, files, regs>>

\* one pass of while ((entry = readdir(dir)) != nullptr)
TravEntry(s) ==
    /\ s \in Sessions
    /\ InTraversal(session[s])
    /\ Top(session[s]).phase = "iter"
    /\ Top(session[s]).idx <= Len(DirEntries[Resolve(Top(session[s]).path)])
    /\ \E failSend, failWrite, failSend2, flushed \in BOOLEAN :
         LET r0 == session[s]
             top == Top(r0)
             name == DirEntries[Resolve(top.path)][top.idx]
             fullPath == FullPath(top.path, name)
             st == Resolve(fullPath)    \* the file stat(fullPath) describes
             next == [top EXCEPT !.idx = @ + 1]
             isFile == /\ name \notin {".", ".."}
                       /\ st \notin StatFails
                       /\ st \notin Directories
                       /\ st \in RegularFiles
             counted == [r0 EXCEPT !.fileCount = @ + 1]
         IN  /\ (name \notin {".", ".."} /\ st \in Directories)
                    => Len(r0.stack) < MaxDepth
             /\ faults + F(failSend) + F(failWrite) + F(failSend2) <= workload.failures
             /\ faults' = faults + F(failSend) + F(failWrite) + F(failSend2)
             /\ ~isFile => ~failSend /\ ~failWrite /\ ~failSend2 /\ ~flushed
             /\ failSend => ~failWrite
             /\ ~failWrite => ~failSend2 /\ ~flushed
             /\ IF name \in {".", ".."} THEN
                    session' = [session EXCEPT ![s] = SetTop(r0, next)] /\ UNCHANGED files
                ELSE IF st \in StatFails
                        \/ st \notin Directories \cup RegularFiles \cup SpecialFiles THEN
                    session' = [session EXCEPT ![s] = SetTop(r0, next)] /\ UNCHANGED files
                ELSE IF st \in Directories THEN
                    /\ session' = [session EXCEPT ![s] =
                          Push(SetTop(r0, next), Frame(fullPath))]
                    /\ UNCHANGED files
                ELSE IF st \in RegularFiles THEN
                    IF failSend THEN
                        \* perror("send failed"); continue
                        /\ session' = [session EXCEPT ![s] =
                              SetTop([counted EXCEPT !.fault = TRUE, !.sendFault = TRUE],
                                     next)]
                        /\ UNCHANGED files
                    ELSE IF failWrite THEN
                        \* throw: the ofstream is destroyed, the frame returns
                        /\ session' = [session EXCEPT ![s] =
                              Caught([Emit(counted, "File: " \o fullPath \o "\n", FALSE)
                                         EXCEPT !.fault = TRUE],
                                     "Failed writing to output file", failSend2)]
                        /\ files' = IF flushed THEN files \o top.buf ELSE files
                    ELSE
                        /\ session' = [session EXCEPT ![s] =
                              SetTop(Emit(counted, "File: " \o fullPath \o "\n", FALSE),
                                     [next EXCEPT !.buf = @ \o fullPath \o "\n"])]
                        /\ UNCHANGED files
                ELSE
                    session' = [session EXCEPT ![s] = SetTop(r0, next)] /\ UNCHANGED files
    /\ UNCHANGED <<server, workload, users, regs>>

\* readdir returned nullptr: out.close(), closedir, return
TravClose(s) ==
    /\ s \in Sessions
    /\ InTraversal(session[s])
    /\ Top(session[s]).phase = "iter"
    /\ Top(session[s]).idx > Len(DirEntries[Resolve(Top(session[s]).path)])
    /\ files' = files \o Top(session[s]).buf
    /\ session' = [session EXCEPT ![s] = Pop(session[s])]
    /\ UNCHANGED <<server, workload, users, regs, faults>>

CountOfList(r, list) == Len(GetLines(list))

\* to_string(fileCount) in the summary: the counter of this call of handle
ReportedCount(r, list) == r.fileCount

\* handle(), after traverse returned: the summary and the end marker
TraverseDone(s) ==
    /\ s \in Sessions
    /\ session[s].state = "TRAVERSING"
    /\ session[s].stack = <<>>
    /\ \E failSend1, failSend2 \in BOOLEAN :
         /\ faults + F(failSend1) + F(failSend2) <= workload.failures
         /\ faults' = faults + F(failSend1) + F(failSend2)
         /\ session' = [session EXCEPT ![s] =
              Finish(Emit(Emit(session[s],
                               "\nTotal Files: "
                                  \o to_string(ReportedCount(session[s], files))
                                  \o "\n",
                               failSend1),
                          END_MARK, failSend2))]
    /\ UNCHANGED <<server, workload, users, files, regs>>

(***************************************************************************)
(* ContentScanner::scan                                                    *)
(***************************************************************************)
\* the whole file read into content; read() fails on a directory (EISDIR)
ReadFails(path) == Resolve(path) \in Directories

RECURSIVE ScanFromStopping(_, _, _, _, _)
ScanFromStopping(paths, pattern, failAt, i, matches) ==
    IF i > Len(paths) THEN matches
    ELSE IF ~CanOpenFile(paths[i]) \/ ReadFails(paths[i]) \/ failAt = i THEN
        matches
    ELSE IF FindStr(Content(paths[i]), pattern, 0) # NPOS THEN
        ScanFromStopping(paths, pattern, failAt, i + 1, Append(matches, paths[i]))
    ELSE
        ScanFromStopping(paths, pattern, failAt, i + 1, matches)

RECURSIVE ScanFromSkipping(_, _, _, _, _)
ScanFromSkipping(paths, pattern, failAt, i, matches) ==
    IF i > Len(paths) THEN matches
    ELSE IF ~CanOpenFile(paths[i]) \/ ReadFails(paths[i]) \/ failAt = i THEN
        ScanFromSkipping(paths, pattern, failAt, i + 1, matches)
    ELSE IF FindStr(Content(paths[i]), pattern, 0) # NPOS THEN
        ScanFromSkipping(paths, pattern, failAt, i + 1, Append(matches, paths[i]))
    ELSE
        ScanFromSkipping(paths, pattern, failAt, i + 1, matches)

\* the loop over the paths of the list; failAt is the number of the path on
\* which an injected read() failure falls (0: none)
RECURSIVE ScanFrom(_, _, _, _, _)
ScanFrom(paths, pattern, failAt, i, matches) ==
    IF i > Len(paths) THEN matches
    ELSE IF ~CanOpenFile(paths[i]) THEN
        ScanFrom(paths, pattern, failAt, i + 1, matches)   \* continue
    ELSE IF ReadFails(paths[i]) \/ failAt = i THEN
        matches                                            \* throw, caught
    ELSE IF FindStr(Content(paths[i]), pattern, 0) # NPOS THEN
        ScanFrom(paths, pattern, failAt, i + 1, Append(matches, paths[i]))
    ELSE
        ScanFrom(paths, pattern, failAt, i + 1, matches)

\* the paths the same loop calls open(filePath, O_RDONLY) on, in order
RECURSIVE ScanOpened(_, _, _)
ScanOpened(paths, failAt, i) ==
    IF i > Len(paths) THEN <<>>
    ELSE IF ~CanOpenFile(paths[i]) THEN
        <<paths[i]>> \o ScanOpened(paths, failAt, i + 1)  \* continue
    ELSE IF ReadFails(paths[i]) \/ failAt = i THEN
        <<paths[i]>>                                       \* throw, caught
    ELSE
        <<paths[i]>> \o ScanOpened(paths, failAt, i + 1)

scanIgnoringPattern(text, pattern, failOpen, failAt) ==
    IF failOpen THEN <<>>
    ELSE ScanFrom(GetLines(text), "", failAt, 1, <<>>)

\* scan(inputFile, pattern) on a list file holding text; failOpen: the list
\* cannot be opened
scan(text, pattern, failOpen, failAt) ==
    IF failOpen THEN <<>>
    ELSE ScanFrom(GetLines(text), pattern, failAt, 1, <<>>)

\* scan leaves its loop through catch: the list cannot be opened, or a read
\* fails on the first path that can be opened and cannot be read
ScanThrows(text, failOpen, failAt) ==
    \/ failOpen
    \/ \E i \in DOMAIN GetLines(text) :
         /\ CanOpenFile(GetLines(text)[i])
         /\ ReadFails(GetLines(text)[i]) \/ failAt = i

\* the safe_send calls of a response, those numbered in failing fail
RECURSIVE EmitAll(_, _, _, _)
EmitAll(r, parts, failing, i) ==
    IF i > Len(parts) THEN r
    ELSE EmitAll(Emit(r, parts[i], i \in failing), parts, failing, i + 1)

\* "\nMatched Files:\n" and one line per match, or "\nNo matches found\n"
SearchResponse(matches) ==
    IF matches = <<>> THEN <<"\nNo matches found\n", END_MARK>>
    ELSE <<"\nMatched Files:\n">> \o [i \in 1 .. Len(matches) |-> matches[i] \o "\n"]
         \o <<END_MARK>>

\* handle(), after traverse returned in SEARCH: scan, the answer, the marker
SearchScan(s) ==
    /\ s \in Sessions
    /\ session[s].state = "SEARCHING"
    /\ session[s].stack = <<>>
    /\ \E failOpen \in BOOLEAN, failAt \in 0 .. Len(GetLines(files)) :
         LET r0 == session[s]
             paths == GetLines(files)
             injected == failOpen
                         \/ (failAt # 0 /\ CanOpenFile(paths[failAt]))
             matches == scan(files, r0.pattern, failOpen, failAt)
             parts == SearchResponse(matches)
         IN  /\ failOpen => failAt = 0
             /\ failAt # 0 => /\ CanOpenFile(paths[failAt])
                              /\ ~ReadFails(paths[failAt])
                              /\ \A j \in 1 .. failAt - 1 :
                                   CanOpenFile(paths[j]) => ~ReadFails(paths[j])
             /\ \E failing \in SUBSET (1 .. Len(parts)) :
                  /\ faults + F(injected) + Cardinality(failing) <= workload.failures
                  /\ faults' = faults + F(injected) + Cardinality(failing)
                  /\ session' = [session EXCEPT ![s] =
                       Finish(EmitAll([LoggerLog(r0, IF ScanThrows(files, failOpen, failAt)
                                                     THEN "FATAL" ELSE "INFO")
                                          EXCEPT !.matches = matches,
                                                 !.scanned =
                                                    [list |-> IF failOpen THEN <<>> ELSE paths,
                                                     failAt |-> failAt,
                                                     opened |-> IF failOpen THEN <<>>
                                                                ELSE ScanOpened(paths, failAt, 1)],
                                                 !.fault = @ \/ injected],
                                      parts, failing, 1))]
    /\ UNCHANGED <<server, workload, users, files, regs>>

(***************************************************************************)
(* FileInspector::inspect                                                  *)
(***************************************************************************)
OpenErrorNoMark == "ERROR: Cannot open file\n"

\* std::string err = "ERROR: Cannot open file\n" END_MARK
OpenError == "ERROR: Cannot open file\n" \o END_MARK

\* open(filePath, O_RDONLY)
InspectOpen(s) ==
    /\ s \in Sessions
    /\ session[s].state = "INSPECTING"
    /\ ~session[s].fdOpen
    /\ \E failSend \in BOOLEAN :
         LET r0 == session[s]
         IN  /\ faults + F(failSend) <= workload.failures
             /\ faults' = faults + F(failSend)
             /\ CanOpenFile(r0.path) => ~failSend
             /\ session' = [session EXCEPT ![s] =
                  IF CanOpenFile(r0.path)
                  THEN [r0 EXCEPT !.fdOpen = TRUE, !.offset = 0]
                  ELSE Finish(LoggerLog(Emit(r0, OpenError, failSend), "FATAL"))]
    /\ UNCHANGED <<server, workload, users, files, regs>>

\* the bytes one read(fd, buffer, BUFFER_SIZE) returns at offset
ReadChunk(content, offset) == Substr(content, offset, BUFFER_SIZE)

StreamFullChunksOnly(r, chunk) ==
    [Emit(r, IF Len(chunk) = BUFFER_SIZE THEN chunk ELSE "", FALSE)
        EXCEPT !.offset = @ + Len(chunk)]

\* send(client_fd, buffer, bytes, 0) of the chunk just read
StreamChunk(r, chunk) == [Emit(r, chunk, FALSE) EXCEPT !.offset = @ + Len(chunk)]

\* the same send accepting only the first half of the chunk (a send cut
\* short by a signal): the return value is only compared with 0
StreamCut(r, chunk) ==
    [r EXCEPT !.sent = @ \o Substr(chunk, 0, Len(chunk) \div 2),
              !.offset = @ + Len(chunk), !.fault = TRUE, !.sendFault = TRUE]

\* one pass of while ((bytes = read(...)) > 0): read a chunk and send it
InspectChunk(s) ==
    /\ s \in Sessions
    /\ session[s].state = "INSPECTING"
    /\ session[s].fdOpen
    /\ (ReadFails(session[s].path)
          \/ session[s].offset < Len(Content(session[s].path)))
    /\ \E failRead, failSend, cutSend \in BOOLEAN :
         LET r0 == session[s]
             chunk == ReadChunk(Content(r0.path), r0.offset)
         IN  /\ faults + F(failRead) + F(failSend) + F(cutSend) <= workload.failures
             /\ faults' = faults + F(failRead) + F(failSend) + F(cutSend)
             /\ ~(failRead /\ failSend) /\ ~(failRead /\ cutSend) /\ ~(failSend /\ cutSend)
             /\ ReadFails(r0.path) => ~failRead /\ ~failSend /\ ~cutSend
             /\ cutSend => Len(chunk) >= 2
             /\ session' = [session EXCEPT ![s] =
                  IF ReadFails(r0.path) THEN
                      \* bytes < 0: throw, caught, return
                      Finish(LoggerLog([r0 EXCEPT !.fdOpen = FALSE], "FATAL"))
                  ELSE IF failRead \/ failSend THEN
                      Finish(LoggerLog([r0 EXCEPT !.fdOpen = FALSE, !.fault = TRUE,
                                                  !.sendFault = failSend], "FATAL"))
                  ELSE IF cutSend THEN
                      StreamCut(r0, chunk)
                  ELSE
                      StreamChunk(r0, chunk)]
    /\ UNCHANGED <<server, workload, users, files, regs>>

\* read returned 0: close(fd) and the end marker
InspectEnd(s) ==
    /\ s \in Sessions
    /\ session[s].state = "INSPECTING"
    /\ session[s].fdOpen
    /\ ~ReadFails(session[s].path)
    /\ session[s].offset >= Len(Content(session[s].path))
    /\ \E failRead, failClose, failSend \in BOOLEAN :
         LET r0 == [session[s] EXCEPT !.fdOpen = FALSE]
         IN  /\ faults + F(failRead) + F(failClose) + F(failSend) <= workload.failures
             /\ faults' = faults + F(failRead) + F(failClose) + F(failSend)
             /\ failRead => ~failClose /\ ~failSend
             /\ failClose => ~failSend
             /\ session' = [session EXCEPT ![s] =
                  IF failRead \/ failClose
                  THEN Finish(LoggerLog([r0 EXCEPT !.fault = TRUE], "FATAL"))
                  ELSE Finish(LoggerLog(Emit(r0, END_MARK, failSend),
                                        IF failSend THEN "FATAL" ELSE "INFO"))]
    /\ UNCHANGED <<server, workload, users, files, regs>>

(***************************************************************************)
(* The system                                                              *)
(***************************************************************************)
Next ==
    \/ Sigint
    \/ ServerLoop
    \/ \E s \in SessionIds : Accept(s)
    \/ AcceptFails
    \/ ServerCheck
    \/ \E s \in SessionIds : Fork(s)
    \/ ServerWait
    \/ \E s \in SessionIds : AuthUsername(s)
    \/ \E s \in SessionIds : AuthPassword(s)
    \/ \E s \in SessionIds : AuthLookup(s)
    \/ \E s \in SessionIds : AuthRegister(s)
    \/ \E s \in SessionIds : Dispatch(s)
    \/ \E s \in SessionIds : TravOpen(s)
    \/ \E s \in SessionIds : TravEntry(s)
    \/ \E s \in SessionIds : TravClose(s)
    \/ \E s \in SessionIds : TraverseDone(s)
    \/ \E s \in SessionIds : SearchScan(s)
    \/ \E s \in SessionIds : InspectOpen(s)
    \/ \E s \in SessionIds : InspectChunk(s)
    \/ \E s \in SessionIds : InspectEnd(s)

Spec == Init /\ [][Next]_vars

\* a step of the traversal of session s
TraverseStep(s) == TravOpen(s) \/ TravEntry(s) \/ TravClose(s) \/ TraverseDone(s)

(***************************************************************************)
(* Properties                                                              *)
(***************************************************************************)
\* p lies below the directory root
Under(root, p) ==
    Len(p) > Len(root) + 1 /\ SubSeq(p, 1, Len(root) + 1) = root \o "/"

\* the regular files anywhere below root
FilesUnder(root) == {p \in RegularFiles : Under(root, p)}

\* those of them that no unopenable directory and no failing stat hides
FilesReachableUnder(root) ==
    {p \in FilesUnder(root) :
        /\ p \notin StatFails
        /\ \A d \in Directories :
             ((d = root \/ Under(root, d)) /\ Under(d, p))
                => (CanOpenDir(d) /\ d \notin StatFails)}

EndsWith(text, suffix) ==
    /\ Len(text) >= Len(suffix)
    /\ SubSeq(text, Len(text) - Len(suffix) + 1, Len(text)) = suffix

\* the requests a session has completed
Completed(s) == {session[s].history[i] : i \in DOMAIN session[s].history}

\* a request "TRAVERSE <root>"
IsTraverseRequest(h) ==
    Len(h.command) >= 9 /\ SubSeq(h.command, 1, 9) = "TRAVERSE "

RootOfTraverse(h) == SubSeq(h.command, 10, Len(h.command))

\* the end of the response to a TRAVERSE that found n files
TotalFilesEnd(n) == "\nTotal Files: " \o to_string(n) \o "\n" \o END_MARK

\* C1 as stated: every completed TRAVERSE, none of whose I/O calls failed,
\* reports the number of all regular files anywhere below its root.
Orig_C1 ==
    \A s \in DOMAIN session : \A h \in Completed(s) :
        (IsTraverseRequest(h) /\ h.clean)
            => EndsWith(h.response,
                        TotalFilesEnd(Cardinality(FilesUnder(RootOfTraverse(h)))))

\* C1, amended: every completed TRAVERSE, none of whose I/O calls failed,
\* reports in its "Total Files" line the number of the regular files below its
\* root that lie in no directory that cannot be opened; the one counter is
\* shared by all levels of the recursion.
Thm_C1 ==
    \A s \in DOMAIN session : \A h \in Completed(s) :
        (IsTraverseRequest(h) /\ h.clean)
            => /\ h.fileCount = Cardinality(FilesReachableUnder(RootOfTraverse(h)))
               /\ EndsWith(h.response, TotalFilesEnd(h.fileCount))

\* a traversal of r, which holds files at two depths, has reported 3 files
Wit_C1 ==
    \E s \in DOMAIN session : \E h \in Completed(s) :
        /\ h.command = "TRAVERSE r" /\ h.clean
        /\ "r/f" \in FilesReachableUnder("r") /\ "r/d/h" \in FilesReachableUnder("r")
        /\ EndsWith(h.response, TotalFilesEnd(3))

\* C8: two consecutive TRAVERSE requests of one session on the same root,
\* with no failing I/O call, report the same count: the second count does
\* not include the first.
Thm_C8 ==
    \A s \in DOMAIN session : \A i \in DOMAIN session[s].history :
        LET h1 == session[s].history[i]
            h2 == session[s].history[i + 1]
        IN  (/\ i + 1 \in DOMAIN session[s].history
             /\ IsTraverseRequest(h1) /\ IsTraverseRequest(h2)
             /\ RootOfTraverse(h1) = RootOfTraverse(h2)
             /\ h1.clean /\ h2.clean)
                => /\ h1.fileCount = h2.fileCount
                   /\ h2.response = h1.response

\* two traversals of r in a row, each reporting 3 files
Wit_C8 ==
    \E s \in DOMAIN session :
        /\ Len(session[s].history) = 2
        /\ session[s].history[1].command = "TRAVERSE r"
        /\ session[s].history[2].command = "TRAVERSE r"
        /\ session[s].history[1].clean /\ session[s].history[2].clean
        /\ EndsWith(session[s].history[2].response, TotalFilesEnd(3))

\* text holds pattern as a substring
Contains(text, pattern) ==
    \E i \in 0 .. Len(text) - Len(pattern) :
        SubSeq(text, i + 1, i + Len(pattern)) = pattern

\* a request "SEARCH <root> <pattern>"
IsSearchRequest(h) ==
    /\ Len(h.command) >= 7 /\ SubSeq(h.command, 1, 7) = "SEARCH "
    /\ \E i \in 8 .. Len(h.command) : SubSeq(h.command, i, i) = " "

\* the files a search of root for pattern has to report: the regular files
\* below root that can be reached and read and that hold pattern
Matching(root, pattern) ==
    {p \in FilesReachableUnder(root) :
        CanOpenFile(p) /\ Contains(FileContent[p], pattern)}

Reported(h) == {h.matches[i] : i \in DOMAIN h.matches}

\* C2: every completed SEARCH <root> <pattern>, none of whose I/O calls
\* failed, reports exactly the regular files below root that hold pattern:
\* none is missing, none lies outside root, none lacks the pattern.
Orig_C2 ==
    \A s \in DOMAIN session : \A h \in Completed(s) :
        (IsSearchRequest(h) /\ h.clean)
            => Reported(h) = Matching(h.path, h.pattern)

\* registration k is the first one of its username
FirstRegistration(k) == \A j \in 1 .. k - 1 : regs[j].user # regs[k].user

\* session t looked its username up after registration k had been appended:
\* every registration appends one line, and t read at least k lines
LookedUpAfter(t, k) ==
    /\ session[t].authReply # ""
    /\ Len(session[t].seen) >= k
    /\ session[t].username = regs[k].user

\* C3: once a first authentication (U, W) has registered U, a later
\* authentication (U, W) is answered "Login successful" and a later
\* authentication (U, W') with W' # W is answered "Incorrect password".
Orig_C3 ==
    faults = 0 =>
        \A k \in DOMAIN regs : \A t \in DOMAIN session :
            (FirstRegistration(k) /\ LookedUpAfter(t, k))
                => session[t].authReply =
                      IF session[t].password = regs[k].pass
                      THEN "Login successful\n"
                      ELSE "Incorrect password\n"

\* a request "INSPECT <path>"
IsInspectRequest(h) ==
    Len(h.command) >= 8 /\ SubSeq(h.command, 1, 8) = "INSPECT "

TargetOfInspect(h) == SubSeq(h.command, 9, Len(h.command))

\* C4: every completed INSPECT of a regular file that can be opened, none of
\* whose reads and sends failed or was cut short, has sent exactly the bytes
\* of the file, in file order, followed by exactly one sentinel; this for
\* files of 0, 1, 4096, 4097 and 8194 bytes.
Thm_C4 ==
    \A s \in DOMAIN session : \A h \in Completed(s) :
        (/\ IsInspectRequest(h) /\ h.clean
         /\ TargetOfInspect(h) \in RegularFiles
         /\ CanOpenFile(TargetOfInspect(h)))
            => h.response = FileContent[TargetOfInspect(h)] \o "<<END>>\n"

\* the file of two whole chunks and two more bytes has been delivered
Wit_C4 ==
    \E s \in DOMAIN session : \E h \in Completed(s) :
        /\ h.command = "INSPECT v/m" /\ h.clean
        /\ Len(FileContent["v/m"]) = 2 * BUFFER_SIZE + 2
        /\ Len(h.response) = 2 * BUFFER_SIZE + 2 + Len(END_MARK)
        /\ EndsWith(h.response, "yz<<END>>\n")

\* C5: the step in which INSPECT fails to open its path leaves the session
\* in AWAITING_COMMAND, and when the send succeeded the bytes sent for the
\* request are exactly "ERROR: Cannot open file\n" and the sentinel.
Thm_C5 ==
    [][\A s \in DOMAIN session :
          (/\ session[s].state = "INSPECTING"
           /\ ~session[s].fdOpen
           /\ ~CanOpenFile(session[s].path)
           /\ session'[s] # session[s])
              => /\ session'[s].state = "AWAITING_COMMAND"
                 /\ ~session'[s].fault
                      => session'[s].sent = "ERROR: Cannot open file\n<<END>>\n"]_vars

\* INSPECT of a path that does not exist has been answered, and the session
\* waits for its next command
Wit_C5 ==
    \E s \in DOMAIN session : \E h \in Completed(s) :
        /\ h.command = "INSPECT nx" /\ h.clean
        /\ h.response = "ERROR: Cannot open file\n<<END>>\n"
        /\ session[s].state = "AWAITING_COMMAND"

StartsWith(text, prefix) ==
    Len(text) >= Len(prefix) /\ SubSeq(text, 1, Len(prefix)) = prefix

\* the command that session s receives next, "" when its peer has sent all
Inbound(s) ==
    LET script == workload.clients[s].cmds
    IN  IF session[s].next < Len(script) THEN script[session[s].next + 1] ELSE ""

\* s has received its inbound command in this step
Received(s) ==
    /\ session[s].state = "AWAITING_COMMAND"
    /\ Inbound(s) # ""
    /\ session'[s].next = session[s].next + 1

\* C6: every received command that begins with none of TRAVERSE, SEARCH,
\* INSPECT, EXIT leaves the path list, the traversal stack and the counter as
\* they were and the session in AWAITING_COMMAND, and when its sends
\* succeeded the bytes sent for it are exactly "ERROR: Unknown command\n"
\* and the sentinel.
Thm_C6 ==
    [][\A s \in DOMAIN session :
          (/\ Received(s)
           /\ \A verb \in {"TRAVERSE", "SEARCH", "INSPECT", "EXIT"} :
                ~StartsWith(Inbound(s), verb))
              => /\ files' = files
                 /\ session'[s].stack = session[s].stack
                 /\ session'[s].fileCount = session[s].fileCount
                 /\ session'[s].state = "AWAITING_COMMAND"
                 /\ ~session'[s].fault
                      => session'[s].sent = "ERROR: Unknown command\n<<END>>\n"]_vars

\* "FOO bar" was answered after a traversal had filled the path list, which
\* still holds what the traversal wrote
Wit_C6 ==
    \E s \in DOMAIN session :
        /\ Len(session[s].history) = 2
        /\ IsTraverseRequest(session[s].history[1])
        /\ session[s].history[2].command = "FOO bar"
        /\ session[s].history[2].clean
        /\ session[s].history[2].response = "ERROR: Unknown command\n<<END>>\n"
        /\ files # ""

\* no space at or after position 7 (counted from 0)
NoPatternSeparator(command) ==
    \A i \in 8 .. Len(command) : SubSeq(command, i, i) # " "

\* C7: a received SEARCH command with no space at or after position 7 sends
\* nothing, leaves the path list as it was, and leaves the session in
\* AWAITING_COMMAND, with its next command still to be read.
Thm_C7 ==
    [][\A s \in DOMAIN session :
          (/\ Received(s)
           /\ StartsWith(Inbound(s), "SEARCH")
           /\ NoPatternSeparator(Inbound(s)))
              => /\ session'[s].sent = ""
                 /\ files' = files
                 /\ session'[s].state = "AWAITING_COMMAND"
                 /\ session'[s].stack = session[s].stack]_vars

\* "SEARCH r", received after a traversal, got no answer, and the path list
\* the traversal wrote is still there
Wit_C7 ==
    \E s \in DOMAIN session :
        /\ Len(session[s].history) = 2
        /\ IsTraverseRequest(session[s].history[1])
        /\ session[s].history[2].command = "SEARCH r"
        /\ session[s].history[2].response = ""
        /\ session[s].state = "AWAITING_COMMAND"
        /\ files # ""

\* the lines of the credential store, in file order
StoreLines == GetLines(users)

\* the line that registration k wrote, as the store should hold it
RecordOf(k) ==
    regs[k].user \o ":" \o regs[k].salt \o ":"
        \o hashPassword(regs[k].pass \o regs[k].salt)

\* sessions a and b registered the same username at the same time: each
\* looked the username up before the other had appended
Raced(a, b) ==
    /\ a # b
    /\ session[a].username = session[b].username
    /\ session[a].password # session[b].password
    /\ session[a].authReply = "Account created\n"
    /\ session[b].authReply = "Account created\n"
    /\ \A i \in DOMAIN session[a].seen :
          ~StartsWith(session[a].seen[i], session[a].username \o ":")
    /\ \A i \in DOMAIN session[b].seen :
          ~StartsWith(session[b].seen[i], session[b].username \o ":")

\* C9: whenever two sessions with one username and different passwords have
\* both found no record and both been answered "Account created", the store
\* holds a record of each of them, two records for the one username.
Thm_C9 ==
    \A a, b \in DOMAIN session :
        (Raced(a, b) /\ faults = 0)
            => \E i, j \in DOMAIN StoreLines :
                  /\ i # j
                  /\ i \in DOMAIN regs /\ regs[i].session = a
                  /\ j \in DOMAIN regs /\ regs[j].session = b
                  /\ StoreLines[i] = RecordOf(i)
                  /\ StoreLines[j] = RecordOf(j)
                  /\ StartsWith(StoreLines[i], session[a].username \o ":")
                  /\ StartsWith(StoreLines[j], session[a].username \o ":")

\* the interleaving exists: two sessions of amy, passwords pw and px, both
\* saw an empty store, both were answered "Account created", two records
Wit_C9 ==
    /\ Len(session) >= 2
    /\ Raced(1, 2)
    /\ session[1].username = "amy"
    /\ session[1].seen = <<>> /\ session[2].seen = <<>>
    /\ Len(StoreLines) = 2
    /\ faults = 0

\* the first registration of username among the first n
RECURSIVE FirstOf(_, _, _)
FirstOf(username, n, k) ==
    IF k > n THEN 0
    ELSE IF regs[k].user = username THEN k
    ELSE FirstOf(username, n, k + 1)

\* session t was answered from a record of the store
Decided(t) ==
    session[t].authReply \in {"Login successful\n", "Incorrect password\n"}

\* C10: a login is decided by the first record of the username in the store
\* as the session read it: the password that record was registered with is
\* answered "Login successful", every other password, also that of a later
\* record of the same username, "Incorrect password".
Thm_C10 ==
    \A t \in DOMAIN session :
        Decided(t) =>
            LET k == FirstOf(session[t].username, Len(session[t].seen), 1)
            IN  /\ k # 0
                /\ session[t].seen[k] = RecordOf(k)
                /\ session[t].authReply =
                      IF session[t].password = regs[k].pass
                      THEN "Login successful\n"
                      ELSE "Incorrect password\n"

\* the store holds two records of amy, and the password of the second one
\* was answered "Incorrect password"
Wit_C10 ==
    \E t \in DOMAIN session :
        /\ Len(regs) = 2
        /\ regs[1].user = "amy" /\ regs[2].user = "amy"
        /\ Len(session[t].seen) = 2
        /\ session[t].username = "amy"
        /\ session[t].password = regs[2].pass
        /\ session[t].password # regs[1].pass
        /\ session[t].authReply = "Incorrect password\n"

\* the states of the handshake, before the command loop
AuthStates ==
    {"UNBORN", "AUTH_USERNAME", "AUTH_PASSWORD", "AUTH_LOOKUP", "AUTH_REGISTER"}

\* authenticate() returned true
AuthSucceeded(t) ==
    session[t].authReply \in {"Login successful\n", "Account created\n"}

\* C11: a session whose authentication has not succeeded has read no
\* command, completed no request, sent no sentinel and logged no command,
\* and is in the handshake or ended; so a failed authentication (incorrect
\* password, handshake I/O error) ends the session before the command loop.
Thm_C11 ==
    \A t \in DOMAIN session :
        ~AuthSucceeded(t) =>
            /\ session[t].state \in AuthStates \cup {"ENDED"}
            /\ session[t].next = 0
            /\ session[t].history = <<>>
            /\ ~Contains(session[t].sent, "<<END>>")
            /\ \A i \in DOMAIN session[t].log :
                  ~StartsWith(session[t].log[i], "Command: ")

\* a client that had a command to send was answered "Incorrect password"
\* and its session ended with the command unread
Wit_C11 ==
    \E t \in DOMAIN session :
        /\ session[t].authReply = "Incorrect password\n"
        /\ session[t].state = "ENDED"
        /\ workload.clients[t].cmds # <<>>
        /\ session[t].next = 0

\* the three results of a handshake
AuthResults == {"Login successful\n", "Incorrect password\n", "Account created\n"}

\* session t is through with its handshake and has not yet read a command:
\* sent holds the bytes of the handshake
HandshakeOver(t) ==
    /\ session[t].state \notin AuthStates
    /\ session[t].next = 0
    /\ session[t].history = <<>>

\* C12: a handshake in which both replies were received has, when it is
\* over, sent one of the three results after the two prompts, and nothing
\* else (a result whose send failed counts as sent).
Orig_C12 ==
    \A t \in DOMAIN session :
        (HandshakeOver(t) /\ session[t].replies = 2)
            => /\ session[t].authReply \in AuthResults
               /\ session[t].sent \in {"Username: Password: " \o session[t].authReply,
                                       "Username: Password: "}

\* the moves of the command processor that the state machine allows
AllowedMove(from, to) ==
    \/ from = "AWAITING_COMMAND"
         /\ to \in {"AWAITING_COMMAND", "TRAVERSING", "SEARCHING", "INSPECTING",
                    "ENDED"}
    \/ from \in {"TRAVERSING", "SEARCHING", "INSPECTING"}
         /\ to \in {from, "AWAITING_COMMAND"}
    \/ from = "ENDED" /\ to = "ENDED"

\* C13: a session in the command loop is in one of the five states and
\* moves only AWAITING_COMMAND -> TRAVERSING / SEARCHING / INSPECTING ->
\* AWAITING_COMMAND or AWAITING_COMMAND -> ENDED; an ended session reads
\* and sends nothing more.
Orig_C13 ==
    [][\A s \in DOMAIN session :
          session[s].state \notin AuthStates
              => /\ AllowedMove(session[s].state, session'[s].state)
                 /\ session[s].state = "ENDED" => session'[s] = session[s]]_vars

\* a command that begins with none of the four verbs
IsUnknownRequest(h) ==
    \A verb \in {"TRAVERSE", "SEARCH", "INSPECT", "EXIT"} :
        ~StartsWith(h.command, verb)

\* the requests that are answered with a framed response
IsFramedRequest(h) ==
    IsTraverseRequest(h) \/ IsSearchRequest(h) \/ IsInspectRequest(h)
        \/ IsUnknownRequest(h)

\* text ends with one sentinel, not with two
EndsWithOneSentinel(text) ==
    EndsWith(text, "<<END>>\n") /\ ~EndsWith(text, "<<END>>\n<<END>>\n")

\* C14: every completed TRAVERSE, well-formed SEARCH, INSPECT and unknown
\* command in which no I/O call was made to fail has a response that ends
\* with exactly one sentinel, and a session that received EXIT has sent
\* nothing for it.
Orig_C14 ==
    \A s \in DOMAIN session :
        /\ \A h \in Completed(s) :
              (IsFramedRequest(h) /\ h.clean) => EndsWithOneSentinel(h.response)
        /\ StartsWith(session[s].command, "EXIT") => session[s].sent = ""

\* the request is one of the exceptions of C15: a send failed (the peer is
\* gone), or a call failed on the server after bytes had been streamed
Excepted(h) ==
    \/ h.sendFailed
    \/ ~h.clean /\ h.response # ""

\* C15: every completed TRAVERSE, well-formed SEARCH, INSPECT and unknown
\* command whose sends all succeeded, and in which nothing failed after
\* bytes had been streamed, has a response that ends with the sentinel, with
\* its content or an "ERROR: " line before it.
Orig_C15 ==
    \A s \in DOMAIN session : \A h \in Completed(s) :
        (IsFramedRequest(h) /\ ~Excepted(h))
            => /\ EndsWith(h.response, END_MARK)
               /\ ~h.clean => Contains(h.response, "ERROR: ")

\* session t has traversed, or is traversing, the tree that holds path
WrittenBy(t, path) ==
    /\ session[t].state \notin AuthStates
    /\ Verb(session[t].command) \in {"TRAVERSE", "SEARCH"}
    /\ Under(session[t].path, path)

\* C16: a path that a completed SEARCH reports is a file that holds the
\* pattern, and a reported path outside the search's own root is a path
\* that the traversal of another session wrote to the shared path list.
Thm_C16 ==
    \A s \in DOMAIN session : \A h \in Completed(s) :
        (IsSearchRequest(h) /\ h.clean) =>
            \A m \in Reported(h) :
                /\ m \in RegularFiles /\ Contains(FileContent[m], h.pattern)
                /\ ~Under(h.path, m)
                      => \E t \in DOMAIN session \ {s} : WrittenBy(t, m)

\* the interleaving exists: "SEARCH q bc" of session 1 has reported r/d/h,
\* which is not under q and which session 2's traversal of r/d wrote
Wit_C16 ==
    /\ Len(session) = 2
    /\ \E h \in Completed(1) :
          /\ h.command = "SEARCH q bc" /\ h.clean
          /\ "r/d/h" \in Reported(h)
          /\ ~Under("q", "r/d/h")
    /\ WrittenBy(2, "r/d/h")

\* a step in which the dispatcher forks session s
Spawns(s) == session[s].state = "UNBORN" /\ session'[s].state # "UNBORN"

\* the dispatcher terminates in this step only if every session it has
\* forked has terminated
WaitsForSessions ==
    (server.pc # "done" /\ server'.pc = "done") =>
        \A s \in DOMAIN session : session'[s].state # "UNBORN" => Terminated(s)

\* C17 as stated: once handle_sigint has cleared g_running and closed the
\* listening socket, no step forks a session, and the dispatcher
\* terminates only after every session it has forked has terminated.
Orig_C17 ==
    [][/\ ~server.g_running => \A s \in DOMAIN session : ~Spawns(s)
       /\ WaitsForSessions]_vars

\* C17 (amended): once handle_sigint has cleared g_running and closed the
\* listening socket, accept returns no further connection, and the only
\* session the dispatcher may still fork is the one for the connection it
\* had already accepted and taken past its test of the flag, so at most
\* one; the dispatcher terminates only after every session it has forked
\* has terminated.
Thm_C17 ==
    [][/\ ~server.g_running =>
            /\ server'.accepted = server.accepted
            /\ \A s \in DOMAIN session :
                 Spawns(s) => /\ server.pc = "fork"
                              /\ server.client_fd = s
                              /\ server.late = 0
       /\ WaitsForSessions]_vars

\* the dispatcher has terminated after an interrupt, having waited for two
\* sessions, one of which it forked after the flag was cleared
Wit_C17 ==
    /\ server.pc = "done"
    /\ server.sigints = 1
    /\ server.late = 1
    /\ Cardinality(Spawned) = 2
    /\ \E s \in Spawned : session[s].history # <<>>

\* a step of session s in which a read, the close or a send of an INSPECT
\* that has opened its file fails: the stream is over and nothing was sent
StreamFails(s) ==
    /\ session[s].state = "INSPECTING"
    /\ session[s].fdOpen
    /\ ~session'[s].fdOpen
    /\ session'[s].sent = session[s].sent

\* C18 as stated: a read or send failure while INSPECT is streaming a file
\* ends the session: the step in which it happens leaves the session ENDED,
\* so that it processes no further command.
Orig_C18 ==
    [][\A s \in DOMAIN session :
         StreamFails(s) => session'[s].state = "ENDED"]_vars

\* a step in which session s logs an entry of severity FATAL
LogsFatal(s) == session'[s].fatals > session[s].fatals

\* the session process runs and is in its command loop, or on its way back
\* to it from traverse
InCommandLoop(r) == r.state \in {"AWAITING_COMMAND", "TRAVERSING", "SEARCHING"}

Registers(s) ==
    /\ session[s].state = "AUTH_REGISTER"
    /\ session'[s].authReply = "Account created\n"
    /\ \E salt \in Salts :
         users' = users \o session[s].username \o ":" \o salt \o ":"
                        \o hashPassword(session[s].password \o salt) \o "\n"

\* a step in which the lookup of session s finds a record of its username
\* and answers the login attempt, successful or with an incorrect password
AnswersLogin(s) ==
    /\ session[s].state = "AUTH_LOOKUP"
    /\ session'[s].authReply \in {"Login successful\n", "Incorrect password\n"}

NoOverlap ==
    \A k \in DOMAIN regs : session[regs[k].session].lookedAt = k - 1

\* the username of a record, as the lookup reads it
UserOf(line) == ParseRecord(line).user

\* C21 as stated: when no two authentications overlapped, the store holds
\* at most one record per username.
Orig_C21 ==
    NoOverlap =>
        \A i, j \in DOMAIN StoreLines :
            i # j => UserOf(StoreLines[i]) # UserOf(StoreLines[j])

\* a step in which session s receives a command chunk
Receives(s) ==
    /\ session[s].state = "AWAITING_COMMAND"
    /\ session'[s].next = session[s].next + 1

\* C22 as stated: the step in which a session receives a command chunk
\* appends "Command: <chunk>" to the session's log, after the entries the
\* log held and before any entry of the dispatch ("Session ended").
Orig_C22 ==
    [][\A s \in DOMAIN session :
         Receives(s) =>
            /\ Len(session'[s].log) > Len(session[s].log)
            /\ SubSeq(session'[s].log, 1, Len(session[s].log)) = session[s].log
            /\ session'[s].log[Len(session[s].log) + 1]
                  = "Command: " \o session'[s].command]_vars

\* the directories at or below root that the traversal reaches and that
\* opendir cannot open
FailedDirsUnder(root) ==
    {d \in Directories :
        /\ Under(root, d)
        /\ ~CanOpenDir(d)
        /\ \A a \in Directories :
             ((a = root \/ Under(root, a)) /\ Under(a, d)) => CanOpenDir(a)}

\* the directories at or below root outside every failed subtree
DirsOutsideFailed(root) ==
    {d \in Directories :
        /\ d = root \/ Under(root, d)
        /\ CanOpenDir(d)
        /\ \A a \in FailedDirsUnder(root) : ~Under(a, d)}

\* the regular files below root outside every failed subtree
FilesOutsideFailed(root) ==
    {p \in FilesUnder(root) : \A a \in FailedDirsUnder(root) : ~Under(a, p)}

\* C23: in every completed TRAVERSE of a directory that can be opened, no
\* I/O call of which was made to fail, every directory below the root that
\* opendir cannot open is answered with an error line; no file of its
\* subtree is reported; every directory outside the failed subtrees is
\* announced and every regular file outside them is reported, the
\* siblings that follow the failed directory in its ancestors included;
\* and the final count is the number of the regular files outside them.
Thm_C23 ==
    \A s \in DOMAIN session : \A h \in Completed(s) :
        LET root == RootOfTraverse(h) IN
        (IsTraverseRequest(h) /\ h.clean /\ CanOpenDir(root)) =>
            /\ \A d \in FailedDirsUnder(root) :
                  /\ Contains(h.response, "ERROR: Cannot open directory: " \o d \o "\n")
                  /\ ~Contains(h.response, "Directory: " \o d \o "\n")
                  /\ \A p \in FilesUnder(d) :
                        ~Contains(h.response, "File: " \o p \o "\n")
            /\ \A d \in DirsOutsideFailed(root) :
                  Contains(h.response, "Directory: " \o d \o "\n")
            /\ \A p \in FilesOutsideFailed(root) :
                  Contains(h.response, "File: " \o p \o "\n")
            /\ h.fileCount = Cardinality(FilesOutsideFailed(root))
            /\ EndsWith(h.response, TotalFilesEnd(Cardinality(FilesOutsideFailed(root))))

\* the traversal of r has met r/d/e two levels down, which cannot be
\* opened, has gone on to r/g, the sibling that follows r/d in r, and has
\* counted the three files outside r/d/e
Wit_C23 ==
    \E s \in DOMAIN session : \E h \in Completed(s) :
        /\ h.command = "TRAVERSE r" /\ h.clean
        /\ FailedDirsUnder("r") = {"r/d/e"}
        /\ Contains(h.response,
                    "ERROR: Cannot open directory: r/d/e\nERROR: opendir failed: Permission denied\nFile: r/g\n")
        /\ EndsWith(h.response, TotalFilesEnd(3))

\* a step in which the scan of session s returns
ScanReturns(s) ==
    /\ session[s].state = "SEARCHING"
    /\ session[s].stack = <<>>
    /\ session'[s].state = "AWAITING_COMMAND"

\* the paths among the first n of list that can be opened and read and
\* that hold pattern, in list order
RECURSIVE MatchesAmong(_, _, _)
MatchesAmong(list, n, pattern) ==
    IF n = 0 THEN <<>>
    ELSE LET p == list[n]
             before == MatchesAmong(list, n - 1, pattern)
         IN  IF /\ p \in RegularFiles \ NoOpenFile
                /\ Contains(FileContent[p], pattern)
             THEN Append(before, p) ELSE before

\* C24: when the read of the k-th path of the list fails after that path
\* was opened, the scan returns exactly the matches among the k - 1 paths
\* before it, in list order, and has called open on no path after the k-th.
Thm_C24 ==
    [][\A s \in DOMAIN session :
         LET sc == session'[s].scanned IN
         (ScanReturns(s) /\ sc.failAt # 0) =>
            /\ session'[s].matches
                  = MatchesAmong(sc.list, sc.failAt - 1, session'[s].pattern)
            /\ sc.opened = SubSeq(sc.list, 1, sc.failAt)]_vars

\* the read of w/a, the first of three paths, has failed: nothing is
\* returned although w/c, the third, holds the pattern, and only w/a was
\* opened
Wit_C24 ==
    \E s \in DOMAIN session :
        /\ session[s].state = "AWAITING_COMMAND"
        /\ session[s].command = "SEARCH w bc"
        /\ session[s].scanned.list = <<"w/a", "w/b", "w/c">>
        /\ session[s].scanned.failAt = 1
        /\ session[s].scanned.opened = <<"w/a">>
        /\ session[s].matches = <<>>
        /\ Contains(FileContent["w/c"], "bc")

\* C25: a scan none of whose I/O calls was made to fail calls open on every
\* path of the list, those after a path that cannot be opened included,
\* logs no FATAL entry, sends no error line, and returns, in list order,
\* exactly the paths that can be opened and hold the pattern.
Thm_C25 ==
    [][\A s \in DOMAIN session :
         LET sc == session'[s].scanned IN
         (ScanReturns(s) /\ ~session'[s].fault) =>
            /\ sc.opened = sc.list
            /\ session'[s].matches
                  = MatchesAmong(sc.list, Len(sc.list), session'[s].pattern)
            /\ session'[s].fatals = session[s].fatals
            /\ ~Contains(SubSeq(session'[s].sent, Len(session[s].sent) + 1,
                                Len(session'[s].sent)), "ERROR")]_vars

\* w/b, the second of three paths, cannot be opened: the scan has gone on
\* to w/c and has answered with w/a and w/c, in this order, and no error
Wit_C25 ==
    \E s \in DOMAIN session : \E h \in Completed(s) :
        /\ h.command = "SEARCH w bc" /\ h.clean
        /\ session[s].scanned.opened = <<"w/a", "w/b", "w/c">>
        /\ "w/b" \in NoOpenFile
        /\ h.matches = <<"w/a", "w/c">>
        /\ EndsWith(h.response, "File: w/c\n\nMatched Files:\nw/a\nw/c\n<<END>>\n")
        /\ ~Contains(h.response, "ERROR")
        /\ session[s].fatals = 0

\* a step in which session s begins the traversal of a TRAVERSE or of a
\* well-formed SEARCH
StartsTraversal(s) ==
    /\ session[s].state = "AWAITING_COMMAND"
    /\ session'[s].state \in {"TRAVERSING", "SEARCHING"}

\* a step in which the TRAVERSE or SEARCH of session s completes
CompletesTraversal(s) ==
    /\ session[s].state \in {"TRAVERSING", "SEARCHING"}
    /\ session'[s].state = "AWAITING_COMMAND"

\* C26: in a run of one session, the step that begins a TRAVERSE or a
\* well-formed SEARCH leaves the PathList empty, and when the request
\* completes every line of the PathList is a regular file below the root
\* of this request that this request has reported with a "File:" line, no
\* path is listed twice, and when no I/O call was made to fail the list
\* holds exactly the files the request could reach.
Thm_C26 ==
    [][Len(workload.clients) = 1 =>
         \A s \in DOMAIN session :
            /\ StartsTraversal(s) => files' = ""
            /\ CompletesTraversal(s) =>
                  LET list == GetLines(files')
                  IN  /\ \A i \in DOMAIN list :
                            /\ list[i] \in RegularFiles
                            /\ Under(session[s].path, list[i])
                            /\ Contains(session[s].sent, "File: " \o list[i] \o "\n")
                      /\ \A i, j \in DOMAIN list : i # j => list[i] # list[j]
                      /\ ~session'[s].fault =>
                            {list[i] : i \in DOMAIN list}
                               = FilesReachableUnder(session[s].path)]_vars

\* the one session has traversed r, which left three paths, and then q:
\* the PathList holds the two paths of q and none of r
Wit_C26 ==
    /\ Len(workload.clients) = 1
    /\ \E s \in DOMAIN session :
        /\ Len(session[s].history) = 2
        /\ session[s].history[1].command = "TRAVERSE r"
        /\ session[s].history[1].fileCount = 3
        /\ session[s].history[2].command = "TRAVERSE q"
        /\ session[s].history[2].clean
        /\ files = "q/m\nq/n\n"

\* the positions at which pattern begins in text
Positions(text, pattern) ==
    {i \in 1 .. Len(text) - Len(pattern) + 1 :
        SubSeq(text, i, i + Len(pattern) - 1) = pattern}

\* a completed request that traversed: a TRAVERSE or a well-formed SEARCH
Traversed(h) == IsTraverseRequest(h) \/ IsSearchRequest(h)

\* the peer has received exactly one "Directory: d" line, and it precedes
\* every "File:" and "Directory:" line of an entry inside d
AnnouncedOnceFirst(response, d) ==
    LET at == Positions(response, "Directory: " \o d \o "\n")
    IN  /\ Cardinality(at) = 1
        /\ \A i \in at :
              \A j \in Positions(response, "File: " \o d \o "/")
                        \cup Positions(response, "Directory: " \o d \o "/") : i < j

\* C27 as stated: in every completed traversal no send of which failed,
\* the peer has received exactly one "Directory:" line for each directory
\* that opendir opened, before every line of an entry inside it.
Orig_C27 ==
    \A s \in DOMAIN session : \A h \in Completed(s) :
        (Traversed(h) /\ ~h.sendFailed) =>
            \A k \in DOMAIN h.dirs : AnnouncedOnceFirst(h.response, h.dirs[k].path)

\* C27 (amended): in every completed traversal no send of which failed,
\* the peer has received exactly one "Directory:" line for each directory
\* that opendir opened and for which the path list could then be opened
\* for append, before every line of an entry inside it; a directory that
\* was opened but whose open of the path list failed is not announced and
\* no entry of it is reported: it is answered with an error line.
Thm_C27 ==
    \A s \in DOMAIN session : \A h \in Completed(s) :
        (Traversed(h) /\ ~h.sendFailed) =>
            \A k \in DOMAIN h.dirs :
                LET d == h.dirs[k].path
                IN  IF h.dirs[k].out
                    THEN AnnouncedOnceFirst(h.response, d)
                    ELSE /\ Positions(h.response, "Directory: " \o d \o "\n") = {}
                         /\ Positions(h.response, "File: " \o d \o "/") = {}
                         /\ Contains(h.response,
                                     "ERROR: Failed to open output file: " \o fileList \o "\n")

\* the traversal of r has announced r and, after the file r/f, the
\* directory r/d inside it, each once
Wit_C27 ==
    \E s \in DOMAIN session : \E h \in Completed(s) :
        /\ h.command = "TRAVERSE r" /\ ~h.sendFailed
        /\ Len(h.dirs) = 2
        /\ h.dirs[1] = [path |-> "r", out |-> TRUE]
        /\ h.dirs[2] = [path |-> "r/d", out |-> TRUE]
        /\ StartsWith(h.response, "Directory: r\nFile: r/f\nDirectory: r/d\nFile: r/d/h\n")

\* a step of session s in the handshake in which a send or a recv fails,
\* the recv that finds the peer gone included: the step receives no reply
HandshakeFails(s) ==
    /\ session[s].state \in {"AUTH_USERNAME", "AUTH_PASSWORD"}
    /\ session'[s] # session[s]
    /\ session'[s].replies = session[s].replies

\* C28: the step in which a send or a recv of the handshake fails before
\* the password has been received ends the session unauthenticated,
\* leaves the credential store as it was, opens no per-session log and
\* sends no result message: the peer has received the prompts at most.
Thm_C28 ==
    [][\A s \in DOMAIN session :
         HandshakeFails(s) =>
            /\ session'[s].state = "ENDED"
            /\ ~AuthSucceeded(s)'
            /\ session'[s].authReply = ""
            /\ users' = users
            /\ regs' = regs
            /\ ~session'[s].logOpen
            /\ session'[s].log = <<>>
            /\ session'[s].sent \in {"", "Username: ", "Username: Password: "}]_vars

\* after a registration has put a record into the store, the recv of the
\* password has failed in another session: it has ended with the two
\* prompts sent and the store still holds the one record
Wit_C28 ==
    \E a, b \in DOMAIN session :
        /\ session[a].authReply = "Account created\n"
        /\ session[b].state = "ENDED"
        /\ session[b].replies = 1
        /\ session[b].sent = "Username: Password: "
        /\ session[b].fault
        /\ Len(StoreLines) = 1

\* a step in which the lookup of session s cannot open the store for
\* reading: a call has failed and it was no send
ReadOpenFails(s) ==
    /\ session[s].state = "AUTH_LOOKUP"
    /\ session'[s].fault
    /\ ~session'[s].sendFault

\* a step in which the registration of session s cannot open the store for
\* append
AppendOpenFails(s) ==
    /\ session[s].state = "AUTH_REGISTER"
    /\ session'[s].state = "ENDED"

\* a step in which the registration of session s opens the store for
\* append
AppendOpens(s) ==
    /\ session[s].state = "AUTH_REGISTER"
    /\ session'[s] # session[s]
    /\ session'[s].state # "ENDED"

\* C29: a lookup that cannot open the store for reading sends nothing,
\* leaves the store as it was and goes on to registration, as if the
\* username had no record; a registration that opens the store for append
\* appends its record and answers "Account created"; a registration that
\* cannot open the store for append ends the session unauthenticated and
\* leaves the store as it was.
Thm_C29 ==
    [][\A s \in DOMAIN session :
         /\ ReadOpenFails(s) =>
               /\ session'[s].state = "AUTH_REGISTER"
               /\ session'[s].authReply = ""
               /\ session'[s].sent = session[s].sent
               /\ users' = users
         /\ AppendOpens(s) =>
               /\ Registers(s)
               /\ session'[s].state = "AWAITING_COMMAND"
               /\ ~session'[s].sendFault =>
                     session'[s].sent = session[s].sent \o "Account created\n"
         /\ AppendOpenFails(s) =>
               /\ ~AuthSucceeded(s)'
               /\ session'[s].sent = session[s].sent
               /\ users' = users]_vars

\* amy has a record; a second session of amy could not open the store for
\* reading, has registered and was answered "Account created": two records
Wit_C29 ==
    \E a, b \in DOMAIN session :
        /\ a # b
        /\ session[a].username = "amy" /\ session[b].username = "amy"
        /\ session[a].authReply = "Account created\n"
        /\ session[b].lookedAt = 1
        /\ session[b].seen = <<>>
        /\ session[b].authReply = "Account created\n"
        /\ EndsWith(session[b].sent, "Password: Account created\n")
        /\ Len(StoreLines) = 2

\* a step of the dispatcher in its accept loop
DispatcherStep ==
    \/ ServerLoop
    \/ \E s \in SessionIds : Accept(s)
    \/ AcceptFails
    \/ ServerCheck
    \/ \E s \in SessionIds : Fork(s)

\* C30: while the shutdown flag is unset the dispatcher is never at its
\* blocking wait for the sessions, and whatever the sessions do or fail
\* to do, it can take its next step unless it is in accept with no
\* connection pending: no session, stalled or not, keeps it from
\* accepting the next connection and forking a session for it.
Thm_C30 ==
    server.g_running =>
        /\ server.pc \notin {"wait", "done"}
        /\ ~ENABLED DispatcherStep =>
              /\ server.pc = "accept"
              /\ server.accepted = Len(workload.clients)

\* the first of three sessions still waits for a command of its peer; the
\* dispatcher has since accepted the second and the third connection and
\* forked their sessions, and the third has come to its end
Wit_C30 ==
    /\ server.g_running
    /\ Len(workload.clients) = 3
    /\ session[1].state = "AWAITING_COMMAND"
    /\ session[1].next = 0
    /\ session[2].state # "UNBORN"
    /\ session[3].state = "ENDED"
    /\ server.pc = "accept"

\* below root there is a link to root or to a directory above root
Cyclic(root) ==
    \E l \in DOMAIN Links :
        /\ Under(Resolve(root), l)
        /\ Links[l] = Resolve(root) \/ Under(Links[l], Resolve(root))

\* session s is in a TRAVERSE of a tree with a cycle
TraversesCycle(s) ==
    /\ s \in Sessions
    /\ session[s].state = "TRAVERSING"
    /\ Cyclic(session[s].path)

\* the steps that the call traverse(path) takes until it returns when no
\* I/O call fails, and those a call that is in its readdir loop at entry
\* idx still takes: one for opendir, one for every entry, those of the
\* calls for the subdirectories, one for the return
RECURSIVE Work(_), Rest(_, _)
Work(path) == IF CanOpenDir(path) THEN 1 + Rest(path, 1) ELSE 1

Rest(path, idx) ==
    LET entries == DirEntries[Resolve(path)]
        fullPath == FullPath(path, entries[idx])
    IN  IF idx > Len(entries) THEN 1
        ELSE 1 + Rest(path, idx + 1)
               + (IF /\ entries[idx] \notin {".", ".."}
                     /\ Resolve(fullPath) \in Directories
                  THEN Work(fullPath) ELSE 0)

RECURSIVE StackWork(_, _)
StackWork(stack, i) ==
    IF i > Len(stack) THEN 0
    ELSE StackWork(stack, i + 1)
         + (IF stack[i].phase = "open" THEN Work(stack[i].path)
            ELSE Rest(stack[i].path, stack[i].idx))

\* a bound on the steps that are left of the TRAVERSE request of r
Remaining(r) ==
    IF r.state = "TRAVERSING" THEN 1 + StackWork(r.stack, 1) ELSE 0

IsSearchOf(command, p, q) ==
    /\ Len(command) >= 8 + Len(p)
    /\ SubSeq(command, 1, 6) = "SEARCH"
    /\ SubSeq(command, 8, 7 + Len(p)) = p
    /\ SubSeq(command, 8 + Len(p), 8 + Len(p)) = " "
    /\ SubSeq(command, 9 + Len(p), Len(command)) = q
    /\ Find(p, " ", 0) = NPOS

\* the ways to cut command after its seventh character into p and q
Cuts(command) ==
    {<<SubSeq(command, 8, 7 + k), SubSeq(command, 9 + k, Len(command))>> :
        k \in 0 .. Len(command) - 8}

\* C32: when a session takes a command "SEARCH p q" with no space in p, it
\* starts the traversal of p with q, whole, as the pattern to scan for;
\* the scan that follows reports only files whose content contains q, and
\* the request is completed with path p and pattern q.
Thm_C32 ==
    [][\A s \in Sessions :
         /\ Receives(s) =>
               \A c \in Cuts(session'[s].command) :
                   IsSearchOf(session'[s].command, c[1], c[2]) =>
                       /\ session'[s].state = "SEARCHING"
                       /\ session'[s].path = c[1]
                       /\ session'[s].pattern = c[2]
                       /\ session'[s].stack = <<Frame(c[1])>>
         /\ ScanReturns(s) =>
               \A c \in Cuts(session[s].command) :
                   IsSearchOf(session[s].command, c[1], c[2]) =>
                       /\ \A i \in DOMAIN session'[s].matches :
                             Contains(Content(session'[s].matches[i]), c[2])
                       /\ LET h == session'[s].history[Len(session'[s].history)]
                          IN  h.path = c[1] /\ h.pattern = c[2]]_vars

\* "SEARCH q b  c " was answered: q was traversed and "b  c " scanned for,
\* which no file contains; "SEARCH q b c" would have matched q/n
Wit_C32 ==
    \E s \in Sessions :
        /\ session[s].history # <<>>
        /\ LET h == session[s].history[1]
           IN  /\ h.command = "SEARCH q b  c "
               /\ h.path = "q"
               /\ h.pattern = "b  c "
               /\ h.dirs = <<[path |-> "q", out |-> TRUE]>>
               /\ h.matches = <<>>
               /\ EndsWith(h.response, "\nNo matches found\n" \o END_MARK)

\* a step in which the TRAVERSE of session s completes
CompletesTraverse(s) ==
    /\ session[s].state = "TRAVERSING"
    /\ session'[s].state = "AWAITING_COMMAND"

\* the number of "File:" lines in the bytes sent for the request of r
FileLines(r) == Cardinality(Positions(r.sent, "File: "))

\* C33 as stated: in a run of one session, when a TRAVERSE completes, the
\* number of paths in the PathList, the Total Files count and the number
\* of "File:" lines sent to the peer are equal, whether or not a send or a
\* write failed during the traversal.
Orig_C33 ==
    [][Len(workload.clients) = 1 =>
         \A s \in Sessions :
             CompletesTraverse(s) =>
                 /\ Len(GetLines(files')) = session'[s].fileCount
                 /\ FileLines(session'[s]) = session'[s].fileCount]_vars

\* the count that traverse(path) leaves when it runs alone and no I/O
\* call fails, and the part of it that the entries from idx on add
RECURSIVE CountAlone(_), CountFrom(_, _)
CountAlone(path) == IF CanOpenDir(path) THEN CountFrom(path, 1) ELSE 0

CountFrom(path, idx) ==
    LET entries == DirEntries[Resolve(path)]
        fullPath == FullPath(path, entries[idx])
        st == Resolve(fullPath)
    IN  IF idx > Len(entries) THEN 0
        ELSE CountFrom(path, idx + 1)
             + (IF entries[idx] \in {".", ".."} \/ st \in StatFails THEN 0
                ELSE IF st \in Directories THEN CountAlone(fullPath)
                ELSE IF st \in RegularFiles THEN 1
                ELSE 0)

\* C34: whatever the other sessions do in between, the counter of a
\* session changes only in steps of that session, and when its TRAVERSE
\* completes with none of its I/O calls failed, the count and the "Total
\* Files" line are those of the same request run alone.
Thm_C34 ==
    [][\A s \in Sessions :
         /\ session'[s].fileCount # session[s].fileCount =>
               \A t \in Sessions \ {s} : session'[t] = session[t]
         /\ (CompletesTraverse(s) /\ ~session'[s].fault) =>
               /\ session'[s].fileCount = CountAlone(session[s].path)
               /\ EndsWith(session'[s].sent,
                           TotalFilesEnd(CountAlone(session[s].path)))]_vars

\* the first session has completed TRAVERSE q with "Total Files: 2" while
\* the second is in its own traversal and the shared PathList does not hold
\* two paths
Wit_C34 ==
    /\ Len(workload.clients) = 2
    /\ Len(session[1].history) = 1
    /\ session[1].history[1].command = "TRAVERSE q"
    /\ session[1].history[1].clean
    /\ session[1].history[1].fileCount = 2
    /\ EndsWith(session[1].history[1].response, TotalFilesEnd(2))
    /\ session[2].state \in {"TRAVERSING", "SEARCHING"}
    /\ session[2].stack # <<>>
    /\ Len(GetLines(files)) # 2

\* C35 as stated: in the response to every completed TRAVERSE, SEARCH and
\* INSPECT the bytes "<<END>>" occur nowhere but in the sentinel that ends
\* the response, so that the first occurrence ends the response.
Orig_C35 ==
    \A s \in DOMAIN session : \A h \in Completed(s) :
        (IsTraverseRequest(h) \/ IsSearchRequest(h) \/ IsInspectRequest(h))
            => \A i \in Positions(h.response, "<<END>>") :
                   i = Len(h.response) - Len(END_MARK) + 1

\* C36 as stated: the step in which a session receives a chunk, whatever
\* the chunk is, does not end the session abnormally: the session goes on
\* with the work of the command or is in AWAITING_COMMAND again, or, if
\* the chunk begins with EXIT, it has ended by the normal path.
Orig_C36 ==
    [][\A s \in Sessions :
         Receives(s) =>
            /\ session'[s].state # "ABORTED"
            /\ session'[s].state = "ENDED"
                  => StartsWith(session'[s].command, "EXIT")]_vars

\* what the step that received a chunk shows of the branch taken: the
\* TRAVERSE branch has begun a traversal of the text after the ninth
\* character (or was left by substr on the bare verb), and so on
HandledAsTraverse(s) ==
    \/ /\ session'[s].state = "TRAVERSING"
       /\ session'[s].path = SubSeq(Inbound(s), 10, Len(Inbound(s)))
    \/ session'[s].state = "ABORTED" /\ Len(Inbound(s)) = 8

HandledAsSearch(s) ==
    \/ session'[s].state = "SEARCHING"
    \/ /\ session'[s].state = "AWAITING_COMMAND"
       /\ session'[s].sent = ""
       /\ ~session'[s].fault

HandledAsInspect(s) ==
    \/ /\ session'[s].state = "INSPECTING"
       /\ session'[s].path = SubSeq(Inbound(s), 9, Len(Inbound(s)))
    \/ session'[s].state = "ABORTED" /\ Len(Inbound(s)) = 7

HandledAsExit(s) == session'[s].state = "ENDED"

HandledAsUnknown(s) ==
    /\ session'[s].state = "AWAITING_COMMAND"
    /\ session'[s].fault
         \/ session'[s].sent = "ERROR: Unknown command\n" \o END_MARK

\* C37: the step that receives a chunk takes the TRAVERSE branch if and
\* only if the chunk begins with the 8 characters TRAVERSE, the SEARCH
\* branch iff it begins with SEARCH, the INSPECT branch iff it begins with
\* INSPECT, ends the session iff it begins with EXIT, whatever follows the
\* verb, and answers "ERROR: Unknown command" iff it begins with none.
Thm_C37 ==
    [][\A s \in Sessions :
         Received(s) =>
            /\ HandledAsTraverse(s) <=> StartsWith(Inbound(s), "TRAVERSE")
            /\ HandledAsSearch(s) <=> StartsWith(Inbound(s), "SEARCH")
            /\ HandledAsInspect(s) <=> StartsWith(Inbound(s), "INSPECT")
            /\ HandledAsExit(s) <=> StartsWith(Inbound(s), "EXIT")
            /\ HandledAsUnknown(s) <=>
                  \A verb \in {"TRAVERSE", "SEARCH", "INSPECT", "EXIT"} :
                      ~StartsWith(Inbound(s), verb)]_vars

\* the chunk "EXITnow" has ended a session, and nothing was sent for it
Wit_C37 ==
    \E s \in Sessions :
        /\ session[s].command = "EXITnow"
        /\ session[s].state = "ENDED"
        /\ session[s].sent = ""
        /\ session[s].history = <<>>

\* C38 as stated: the line that the k-th registration appended is split by
\* the lookup of every later authentication into the username that was
\* registered, the salt that was drawn and the hash that was written.
Orig_C38 ==
    \A k \in DOMAIN regs : \A t \in DOMAIN session :
        (session[t].lookedAt >= k /\ Len(session[t].seen) >= k)
            => ParseRecord(session[t].seen[k])
                  = [user |-> regs[k].user,
                     salt |-> regs[k].salt,
                     hash |-> hashPassword(regs[k].pass \o regs[k].salt)]

\* C39: a session process does not hold the listening socket; it comes
\* into being only by the dispatcher's fork, for the connection that accept
\* has just returned; it ends when its peer sends EXIT, disconnects or its
\* recv fails; once it has ended it takes no further step; and the count of
\* accepted connections changes only in the dispatcher's accept, a step in
\* which no session moves.
Thm_C39 ==
    [][/\ \A s \in Sessions :
            /\ ~session'[s].server_fd
            /\ Terminated(s) => session'[s] = session[s]
            /\ (session[s].state = "UNBORN" /\ session'[s].state # "UNBORN") =>
                  /\ server.pc = "fork" /\ server.client_fd = s
                  /\ server'.pc = "while" /\ server'.client_fd = 0
                  /\ session'[s].state = "AUTH_USERNAME"
                  /\ \A t \in Sessions \ {s} : session'[t] = session[t]
            /\ (/\ session[s].state = "AWAITING_COMMAND"
                /\ session'[s] # session[s]
                /\ \/ session'[s].next = session[s].next
                   \/ StartsWith(session'[s].command, "EXIT")) =>
                  Terminated(s)'
       /\ server'.accepted # server.accepted =>
            /\ server.pc = "accept"
            /\ server'.client_fd = server'.accepted
            /\ session' = session]_vars

\* the dispatcher has accepted two connections and forked a session for
\* each; the first ended when its peer disconnected, the second on EXIT;
\* the dispatcher is in accept again
Wit_C39 ==
    /\ Len(workload.clients) = 2
    /\ server.g_running /\ server.pc = "accept" /\ server.accepted = 2
    /\ session[1].state = "ENDED" /\ session[1].command = ""
    /\ session[2].state = "ENDED" /\ session[2].command = "EXIT"
    /\ ~session[1].server_fd /\ ~session[2].server_fd

\* C40 as stated: every connection that accept has returned, once the
\* dispatcher is past its test of the flag and its fork for it, has a
\* session of its own or was closed by the dispatcher, whenever the
\* shutdown signal arrived.
Orig_C40 ==
    \A c \in 1 .. server.accepted :
        \/ server.pc \in {"check", "fork"} /\ server.client_fd = c
        \/ session[c].state # "UNBORN" /\ c \notin server.closed
        \/ session[c].state = "UNBORN" /\ c \in server.closed
====
